---- MODULE Spec2Model ----
(***************************************************************************)
(* Accessibility quick-win scripts: the WCAG contrast calculator, the      *)
(* color contrast analyzer command line run and the color-vision-          *)
(* deficiency transform.                                                    *)
(*                                                                         *)
(* Arithmetic.  The scripts compute in binary floating point; the model    *)
(* computes in fixed point.  A linearized channel is an integer number of  *)
(* 1/100000, a relative luminance an integer number of 1/1000000, a        *)
(* contrast ratio an integer number of thousandths (rounded down), a       *)
(* reported ratio an integer number of hundredths, a font size an integer  *)
(* number of quarter points.  Against the floating point code the ratio in *)
(* thousandths is off by at most 2.  The color-vision-deficiency transform *)
(* is computed exactly; the floating point product can fall just below an  *)
(* exact integer, so that a channel of the code is sometimes one less.     *)
(***************************************************************************)
EXTENDS Integers, Sequences, FiniteSets, TLC

VARIABLES
    color1, color2,        \* contrast calculator: the two RGB colors given
    check,                 \* contrast calculator: what the last call returned
    pc,                    \* analyzer CLI: position in main
    argv,                  \* analyzer CLI: form of the command line
    TESSERACT_AVAILABLE,   \* analyzer CLI: module flag set at import
    screenshots,           \* analyzer CLI: self.screenshots
    next_shot,             \* analyzer CLI: loop position in analyze_all_screenshots
    contrast_results,      \* analyzer CLI: self.contrast_results
    report,                \* analyzer CLI: the report file
    exit_code,             \* analyzer CLI: process exit code (-1 while running)
    pixel, simulation,     \* CVD transform: input pixel, last simulated pixel
    sample_image,          \* color sampler: the two colors of the image sampled
    sampled,               \* color sampler: the last sample and its check
    launcher_pc,           \* app launcher: position in main / run_quick_win_1
    driver,                \* app launcher: who drives it
    exe_path,              \* app launcher: self.exe_path
    monitor_duration,      \* app launcher: iterations of the monitor loop
    process,               \* app launcher: self.process and its returncode
    app,                   \* app launcher: the application as the OS sees it
    metrics,               \* app launcher: self.metrics
    launched,              \* app launcher: what launch() returned
    monitor_i,             \* app launcher: loop index of monitor
    cpu_samples,           \* app launcher: len(cpu_samples) in monitor
    signals,               \* app launcher: requests sent to the application
    launch_report,         \* app launcher: the report file
    launcher_exit_code,    \* app launcher: exit code of main (-1 while running)
    qw7_pc,                \* focus test scripts: position in main
    qw7_script,            \* focus test scripts: which of the two runs
    element_i,             \* focus test scripts: loop index of the test
    test_results,          \* focus test scripts: self.test_results
    passed_tests,          \* focus test scripts: self.passed_tests
    failed_tests,          \* focus test scripts: self.failed_tests
    qw7_raised,            \* focus test scripts: what the test raised
    focus_report,          \* focus test scripts: the report file
    qw7_exit_code,         \* focus test scripts: exit code (-1 while running)
    coordinator_pc,        \* coordinator: position in run_all
    quick_wins_to_run,     \* coordinator: the argument of run_all
    to_run,                \* coordinator: quick_wins_to_run after the default
    next_quick_win,        \* coordinator: the Quick Win run_all looks at next
    invoked,               \* coordinator: the Quick Wins run_all has called
    combined_report,       \* coordinator: the combined report file
    skip_interactive,      \* coordinator: config['skip_interactive']
    quick_wins,            \* coordinator: self.results['quick_wins'], by number
    injected,              \* coordinator: the Quick Wins that sent keys or clicks
    kb_pc,                 \* keyboard test: position in main
    kb_next,               \* keyboard test: the test run_full_test_suite calls next
    kb_results,            \* keyboard test: self.test_results
    kb_passed,             \* keyboard test: self.passed_tests
    kb_failed,             \* keyboard test: self.failed_tests
    kb_report,             \* keyboard test: the report file
    kb_exit_code,          \* keyboard test: exit code of main (-1 while running)
    ce_pc,                 \* career explorer test: position in main
    ce_process,            \* career explorer test: main's variable process
    ce_app,                \* career explorer test: the Career Explorer application
    ce_captured,           \* career explorer test: screenshots taken so far
    ce_done,               \* career explorer test: the steps main has been through
    qw6_summary,           \* career explorer test: main's variable qw6_summary
    qw7_summary,           \* career explorer test: main's variable qw7_summary
    ce_raised,             \* career explorer test: exception on its way out of main
    ce_return,             \* career explorer test: exit status (-1 while running)
    cb_pc,                 \* simulator: position in process_all_screenshots
    cb_screenshots,        \* simulator: self.screenshots, by what the file holds
    cb_next,               \* simulator: index of the screenshot processed next
    cvd_i,                 \* simulator: index of the variant simulated next
    simulations_for_image, \* simulator: the record of the screenshot in progress
    simulations,           \* simulator: self.simulations
    generated,             \* simulator: simulated images written to output_dir
    save_failures,         \* simulator: saves of a simulated image that failed
    ia_pc,                 \* input automation: position in execute_scenario
    steps,                 \* input automation: scenario['steps'], by action
    step_i,                \* input automation: index of the step executed next
    executed,              \* input automation: the steps whose action was called
    ia_results,            \* input automation: self.results
    ia_before,             \* input automation: len(self.results) before the scenario
    ia_report              \* input automation: the report of save_results

contrastVars == <<color1, color2, check>>
analyzerVars == <<pc, argv, TESSERACT_AVAILABLE, screenshots, next_shot,
                  contrast_results, report, exit_code>>
cvdVars == <<pixel, simulation>>
samplerVars == <<sample_image, sampled>>
launcherVars ==
    <<launcher_pc, driver, exe_path, monitor_duration, process, app, metrics,
      launched, monitor_i, cpu_samples, signals, launch_report,
      launcher_exit_code>>
qw7Vars ==
    <<qw7_pc, qw7_script, element_i, test_results, passed_tests, failed_tests,
      qw7_raised, focus_report, qw7_exit_code>>
coordinatorVars ==
    <<coordinator_pc, quick_wins_to_run, to_run, next_quick_win, invoked,
      combined_report, skip_interactive, quick_wins, injected>>
keyboardVars ==
    <<kb_pc, kb_next, kb_results, kb_passed, kb_failed, kb_report, kb_exit_code>>
explorerVars ==
    <<ce_pc, ce_process, ce_app, ce_captured, ce_done, qw6_summary, qw7_summary,
      ce_raised, ce_return>>
simulatorVars ==
    <<cb_pc, cb_screenshots, cb_next, cvd_i, simulations_for_image, simulations,
      generated, save_failures>>
automationVars ==
    <<ia_pc, steps, step_i, executed, ia_results, ia_before, ia_report>>
vars ==
    <<contrastVars, analyzerVars, cvdVars, samplerVars, launcherVars, qw7Vars,
      coordinatorVars, keyboardVars, explorerVars, simulatorVars, automationVars>>

\* Each script runs on its own: while one is modelled the state of the
\* others stays as constructed.
Frame(active) ==
    /\ IF active = "contrast" THEN TRUE ELSE UNCHANGED contrastVars
    /\ IF active = "analyzer" THEN TRUE ELSE UNCHANGED analyzerVars
    /\ IF active = "cvd" THEN TRUE ELSE UNCHANGED cvdVars
    /\ IF active = "sampler" THEN TRUE ELSE UNCHANGED samplerVars
    /\ IF active = "launcher" THEN TRUE ELSE UNCHANGED launcherVars
    /\ IF active = "qw7" THEN TRUE ELSE UNCHANGED qw7Vars
    /\ IF active = "coordinator" THEN TRUE ELSE UNCHANGED coordinatorVars
    /\ IF active = "keyboard" THEN TRUE ELSE UNCHANGED keyboardVars
    /\ IF active = "explorer" THEN TRUE ELSE UNCHANGED explorerVars
    /\ IF active = "simulator" THEN TRUE ELSE UNCHANGED simulatorVars
    /\ IF active = "automation" THEN TRUE ELSE UNCHANGED automationVars

(***************************************************************************)
(* Bounds of the model.                                                    *)
(***************************************************************************)
GridStep == 64
MaxHeight == 24
CvdGridStep == 51
MaxShots == 2
MaxRegions == 2
NumSamples == 2
SampleRadius == 10
MaxDuration == 2
ElementCount == 3

BSeq(S, n) == UNION {[1..k -> S] : k \in 0..n}

Max(a, b) == IF a >= b THEN a ELSE b
Min(a, b) == IF a <= b THEN a ELSE b

(***************************************************************************)
(* Colors: triples of 8-bit channels.                                      *)
(***************************************************************************)
Gray(v) == <<v, v, v>>
White == Gray(255)
Black == Gray(0)
ChannelGrid == {v \in 0..255 : v % GridStep = 0} \cup {255}
GrayLevels == {10, 11, 118, 119, 128, 148, 149}
Colors == (ChannelGrid \X ChannelGrid \X ChannelGrid) \cup {Gray(v) : v \in GrayLevels}

(***************************************************************************)
(* ((v/255 + 0.055) / 1.055) ** 2.4 in units of 1/100000, rounded to the   *)
(* nearest, for v = 0..255 (entry v + 1).                                  *)
(***************************************************************************)
GammaTable ==
<<
    83, 98, 115, 133, 152, 173, 196, 220,
    246, 274, 303, 335, 368, 402, 439, 478,
    518, 561, 605, 651, 700, 750, 802, 857,
    913, 972, 1033, 1096, 1161, 1229, 1298, 1370,
    1444, 1521, 1600, 1681, 1764, 1850, 1938, 2029,
    2122, 2217, 2315, 2416, 2519, 2624, 2732, 2843,
    2956, 3071, 3190, 3310, 3434, 3560, 3689, 3820,
    3955, 4092, 4231, 4374, 4519, 4667, 4817, 4971,
    5127, 5286, 5448, 5613, 5781, 5951, 6125, 6301,
    6480, 6663, 6848, 7036, 7227, 7421, 7619, 7819,
    8022, 8228, 8438, 8650, 8866, 9084, 9306, 9531,
    9759, 9990, 10224, 10462, 10702, 10946, 11193, 11444,
    11697, 11954, 12214, 12477, 12744, 13014, 13287, 13563,
    13843, 14126, 14413, 14703, 14996, 15293, 15593, 15896,
    16203, 16513, 16827, 17144, 17465, 17789, 18116, 18447,
    18782, 19120, 19462, 19807, 20156, 20508, 20864, 21223,
    21586, 21953, 22323, 22697, 23074, 23455, 23840, 24228,
    24620, 25016, 25415, 25818, 26225, 26636, 27050, 27468,
    27889, 28315, 28744, 29177, 29614, 30054, 30499, 30947,
    31399, 31855, 32314, 32778, 33245, 33716, 34191, 34670,
    35153, 35640, 36131, 36625, 37124, 37626, 38133, 38643,
    39157, 39676, 40198, 40724, 41254, 41789, 42327, 42869,
    43415, 43966, 44520, 45079, 45641, 46208, 46778, 47353,
    47932, 48515, 49102, 49693, 50289, 50888, 51492, 52100,
    52712, 53328, 53948, 54572, 55201, 55834, 56471, 57112,
    57758, 58408, 59062, 59720, 60383, 61050, 61721, 62396,
    63076, 63760, 64448, 65141, 65837, 66539, 67244, 67954,
    68669, 69387, 70110, 70838, 71569, 72306, 73046, 73791,
    74540, 75294, 76052, 76815, 77582, 78354, 79130, 79910,
    80695, 81485, 82279, 83077, 83880, 84687, 85499, 86316,
    87137, 87962, 88792, 89627, 90466, 91310, 92158, 93011,
    93869, 94731, 95597, 96469, 97345, 98225, 99110, 100000 >>

(***************************************************************************)
(* ColorContrastAnalyzer: the luminance / contrast calculator.             *)
(***************************************************************************)
\* One channel, linearized: c = v/255; c/12.92 if c <= 0.03928, else the
\* power law.  v/255 <= 0.03928 iff v * 100000 <= 3928 * 255.
\* Mutant of Linearize: the threshold test inverted.
Linearize_inverted(v) ==
    IF v * 100000 > 3928 * 255
    THEN (v * 1000000 + 16473) \div 32946
    ELSE GammaTable[v + 1]

Linearize(v) ==
    IF v * 100000 <= 3928 * 255
    THEN (v * 1000000 + 16473) \div 32946
    ELSE GammaTable[v + 1]

relative_luminance(rgb) ==
    (2126 * Linearize(rgb[1]) + 7152 * Linearize(rgb[2]) + 722 * Linearize(rgb[3]))
        \div 1000

\* Mutants of calculate_contrast_ratio: the luminances taken in argument
\* order instead of lighter over darker; the offset of the lighter color
\* mistyped as 0.5.
calculate_contrast_ratio_unordered(c1, c2) ==
    LET l1 == relative_luminance(c1)
        l2 == relative_luminance(c2)
    IN ((l1 + 50000) * 1000) \div (l2 + 50000)

calculate_contrast_ratio_offset(c1, c2) ==
    LET l1 == relative_luminance(c1)
        l2 == relative_luminance(c2)
        lighter == Max(l1, l2)
        darker == Min(l1, l2)
    IN ((lighter + 500000) * 1000) \div (darker + 50000)

calculate_contrast_ratio(c1, c2) ==
    LET l1 == relative_luminance(c1)
        l2 == relative_luminance(c2)
        lighter == Max(l1, l2)
        darker == Min(l1, l2)
    IN ((lighter + 50000) * 1000) \div (darker + 50000)

\* height_px * 0.75 points, in quarter points
estimate_font_size(height_px) == height_px * 3

\* round(ratio, 2): thousandths to hundredths
round2(ratio) == (ratio + 5) \div 10

\* '#{:02x}{:02x}{:02x}': six hexadecimal digits
rgb_to_hex(rgb) ==
    <<rgb[1] \div 16, rgb[1] % 16, rgb[2] \div 16, rgb[2] % 16,
      rgb[3] \div 16, rgb[3] % 16>>

\* what a check method returns when something in it raised: None
NoCheck == [type |-> "none"]

\* "r, g, b = ..." of relative_luminance needs three channels
Unpacks(rgb) == Len(rgb) = 3

\* A text region as check_text_contrast sees it: the bounding box height
\* reported by OCR, the pixel at the box centre (fg) and the average of the
\* surrounding window (bg).
check_text_contrast(region) ==
    IF ~(Unpacks(region.fg) /\ Unpacks(region.bg)) THEN NoCheck ELSE
    LET ratio == calculate_contrast_ratio(region.fg, region.bg)
        estimated_font_size == estimate_font_size(region.h)
        is_large_text == estimated_font_size >= 18 * 4 \/ estimated_font_size >= 14 * 4
        required_ratio == IF is_large_text THEN 3000 ELSE 4500
        passes == ratio >= required_ratio
    IN [type |-> "text",
        h |-> region.h,
        fg_color |-> rgb_to_hex(region.fg),
        bg_color |-> rgb_to_hex(region.bg),
        ratio |-> round2(ratio),
        required |-> required_ratio,
        passes |-> passes,
        estimated_font_size |-> estimated_font_size,
        is_large_text |-> is_large_text,
        wcag_criterion |-> "1.4.3",
        severity |-> IF ~passes THEN "HIGH" ELSE "PASS"]

\* check_color_pair_contrast with the comparison of line 294 turned around
check_color_pair_contrast_inverted(pair) ==
    IF ~(Unpacks(pair.fg) /\ Unpacks(pair.bg)) THEN NoCheck ELSE
    LET ratio == calculate_contrast_ratio(pair.fg, pair.bg)
        required_ratio == 3000
        passes == ratio <= required_ratio
    IN [type |-> "color_sample",
        fg_color |-> rgb_to_hex(pair.fg),
        bg_color |-> rgb_to_hex(pair.bg),
        ratio |-> round2(ratio),
        required |-> required_ratio,
        passes |-> passes,
        wcag_criterion |-> "1.4.11",
        severity |-> IF ~passes THEN "MEDIUM" ELSE "PASS"]

check_color_pair_contrast(pair) ==
    IF ~(Unpacks(pair.fg) /\ Unpacks(pair.bg)) THEN NoCheck ELSE
    LET ratio == calculate_contrast_ratio(pair.fg, pair.bg)
        required_ratio == 3000
        passes == ratio >= required_ratio
    IN [type |-> "color_sample",
        fg_color |-> rgb_to_hex(pair.fg),
        bg_color |-> rgb_to_hex(pair.bg),
        ratio |-> round2(ratio),
        required |-> required_ratio,
        passes |-> passes,
        wcag_criterion |-> "1.4.11",
        severity |-> IF ~passes THEN "MEDIUM" ELSE "PASS"]

(***************************************************************************)
(* The calculator on its own: two colors are given, one call is made.      *)
(***************************************************************************)
AnalyzerIdle ==
    /\ pc = "idle"
    /\ argv = "none"
    /\ TESSERACT_AVAILABLE = FALSE
    /\ screenshots = <<>>
    /\ next_shot = 1
    /\ contrast_results = <<>>
    /\ report = [state |-> "none"]
    /\ exit_code = -1

CvdIdle ==
    /\ pixel = Black
    /\ simulation = [cvd_type |-> "none"]

ContrastIdle ==
    /\ color1 = Black
    /\ color2 = Black
    /\ check = NoCheck

SamplerIdle ==
    /\ sample_image = [ink |-> Black, paper |-> Black]
    /\ sampled = [type |-> "none"]

None == "None"
ExitCodes == {"0", "1"}
NoProcess == [started |-> FALSE, returncode |-> None]
NoApp == [state |-> "not_started", code |-> None]
NoMetrics == [launch_time |-> None, crash_detected |-> FALSE, errors |-> <<>>]
NoLaunchReport == [state |-> "none"]

\* what the command line or the coordinator's config holds as exe_path:
\* nothing, a path that does not exist, a file that cannot be executed, or
\* the application
ExePaths == {"none", "missing", "unlaunchable", "app"}

LauncherIdle ==
    /\ launcher_pc = "idle"
    /\ driver = "none"
    /\ exe_path = "none"
    /\ monitor_duration = 0
    /\ process = NoProcess
    /\ app = NoApp
    /\ metrics = NoMetrics
    /\ launched = FALSE
    /\ monitor_i = 0
    /\ cpu_samples = 0
    /\ signals = <<>>
    /\ launch_report = NoLaunchReport
    /\ launcher_exit_code = -1

Qw7Idle ==
    /\ qw7_pc = "idle"
    /\ qw7_script = "none"
    /\ element_i = 0
    /\ test_results = <<>>
    /\ passed_tests = 0
    /\ failed_tests = 0
    /\ qw7_raised = None
    /\ focus_report = [state |-> "none"]
    /\ qw7_exit_code = -1

CoordinatorIdle ==
    /\ coordinator_pc = "idle"
    /\ quick_wins_to_run = [given |-> FALSE, numbers |-> {}]
    /\ to_run = {}
    /\ next_quick_win = 1
    /\ invoked = <<>>
    /\ combined_report = [state |-> "none"]
    /\ skip_interactive = FALSE
    /\ quick_wins = [n \in 1..7 |-> "none"]
    /\ injected = {}

KeyboardIdle ==
    /\ kb_pc = "idle"
    /\ kb_next = 1
    /\ kb_results = <<>>
    /\ kb_passed = 0
    /\ kb_failed = 0
    /\ kb_report = [state |-> "none"]
    /\ kb_exit_code = -1

ExplorerIdle ==
    /\ ce_pc = "idle"
    /\ ce_process = "None"
    /\ ce_app = "not_started"
    /\ ce_captured = 0
    /\ ce_done = <<>>
    /\ qw6_summary = "None"
    /\ qw7_summary = "None"
    /\ ce_raised = "None"
    /\ ce_return = -1

SimulatorIdle ==
    /\ cb_pc = "idle"
    /\ cb_screenshots = <<>>
    /\ cb_next = 1
    /\ cvd_i = 1
    /\ simulations_for_image = <<>>
    /\ simulations = <<>>
    /\ generated = 0
    /\ save_failures = 0

AutomationIdle ==
    /\ ia_pc = "idle"
    /\ steps = <<>>
    /\ step_i = 1
    /\ executed = <<>>
    /\ ia_results = <<>>
    /\ ia_before = 0
    /\ ia_report = [state |-> "none"]

\* "self.passed_tests += 1" / "self.failed_tests += 1" counting both
Tally_both(count, hit) == count + 1

\* a counter after a test: incremented if the test fell on its side
Tally(count, hit) == IF hit THEN count + 1 ELSE count

\* the components in active run, the others stay as constructed
Idle(active) ==
    /\ "contrast" \in active \/ ContrastIdle
    /\ "analyzer" \in active \/ AnalyzerIdle
    /\ "cvd" \in active \/ CvdIdle
    /\ "sampler" \in active \/ SamplerIdle
    /\ "launcher" \in active \/ LauncherIdle
    /\ "qw7" \in active \/ Qw7Idle
    /\ "coordinator" \in active \/ CoordinatorIdle
    /\ "keyboard" \in active \/ KeyboardIdle
    /\ "explorer" \in active \/ ExplorerIdle
    /\ "simulator" \in active \/ SimulatorIdle
    /\ "automation" \in active \/ AutomationIdle

InitContrast ==
    /\ color1 \in Colors
    /\ color2 \in Colors
    /\ check = NoCheck
    /\ Idle({"contrast"})

CallContrastRatio ==
    /\ check = NoCheck
    /\ check' = [type |-> "ratio", ratio |-> calculate_contrast_ratio(color1, color2)]
    /\ UNCHANGED <<color1, color2>>
    /\ Frame("contrast")

CallCheckColorPair ==
    /\ check = NoCheck
    /\ check' = check_color_pair_contrast([fg |-> color1, bg |-> color2])
    /\ UNCHANGED <<color1, color2>>
    /\ Frame("contrast")

CallCheckText ==
    /\ check = NoCheck
    /\ \E h \in 1..MaxHeight :
         check' = check_text_contrast([h |-> h, fg |-> color1, bg |-> color2])
    /\ UNCHANGED <<color1, color2>>
    /\ Frame("contrast")

NextContrast == CallContrastRatio \/ CallCheckColorPair \/ CallCheckText

SpecContrast == InitContrast /\ [][NextContrast]_vars


(***************************************************************************)
(* Properties of the calculator (under SpecContrast).                      *)
(***************************************************************************)
RatioReturned == check.type = "ratio"

\* C1: the contrast ratio is symmetric: the ratio returned for (color1,
\* color2) is the ratio of (color2, color1).
C1_Symmetric ==
    RatioReturned => check.ratio = calculate_contrast_ratio(color2, color1)

C1_Witness ==
    /\ RatioReturned
    /\ relative_luminance(color1) < relative_luminance(color2)
    /\ check.ratio > 1000

\* C2: the contrast ratio of a color against itself is exactly 1.0.
C2_SelfRatioIsOne ==
    (RatioReturned /\ color1 = color2) => check.ratio = 1000

C2_Witness ==
    /\ RatioReturned
    /\ color1 = color2
    /\ color1 \notin {White, Black}

\* Every linearized channel value lies in [0,1] and the linearization is
\* monotone over the 256 channel values.
LinearizeInRange ==
    /\ \A v \in 0..255 : Linearize(v) \in 0..100000
    /\ \A v \in 0..254 : Linearize(v) <= Linearize(v + 1)

\* C3: every contrast ratio returned lies between 1.0 and 21.0, and every
\* relative luminance between 0 and 1.
C3_RatioRange ==
    /\ LinearizeInRange
    /\ relative_luminance(color1) \in 0..1000000
    /\ relative_luminance(color2) \in 0..1000000
    /\ RatioReturned => (check.ratio >= 1000 /\ check.ratio <= 21000)

C3_Witness ==
    /\ RatioReturned
    /\ relative_luminance(color1) < relative_luminance(color2)
    /\ check.ratio > 1000
    /\ check.ratio < 21000

\* C5: white against black has contrast ratio 21.0, in either order, and no
\* pair exceeds it.
C5_WhiteOnBlack ==
    /\ (RatioReturned /\ {color1, color2} = {White, Black}) => check.ratio = 21000
    /\ RatioReturned => check.ratio <= 21000

C5_Witness ==
    /\ RatioReturned
    /\ color1 = White
    /\ color2 = Black
    /\ check.ratio = 21000


\* C4 (as stated): white against (118,118,118) has a contrast ratio of
\* about 3.0 and sits at the 3:1 cutoff: one gray level darker the
\* color-sample check (required 3.0) no longer passes.
C4_Original ==
    /\ (RatioReturned /\ {color1, color2} = {White, Gray(118)})
          => (check.ratio >= 2900 /\ check.ratio <= 3100)
    /\ (check.type = "color_sample" /\ {color1, color2} = {White, Gray(119)})
          => ~check.passes

\* C4 (amended): white against (118,118,118) has a contrast ratio of about
\* 4.54 and sits at the 4.5:1 cutoff: a text check with required ratio 4.5
\* passes for gray 118 and fails for gray 119, while the check with
\* required ratio 3.0 passes for both; the 3.0 check flips only between
\* gray 148 and gray 149.
C4_Amended ==
    /\ (RatioReturned /\ {color1, color2} = {White, Gray(118)})
          => (check.ratio >= 4535 /\ check.ratio <= 4545)
    /\ (check.type = "text" /\ check.required = 4500)
          => /\ ({color1, color2} = {White, Gray(118)} => check.passes)
             /\ ({color1, color2} = {White, Gray(119)} => ~check.passes)
    /\ (check.type \in {"text", "color_sample"} /\ check.required = 3000)
          => /\ ({color1, color2} = {White, Gray(118)} => check.passes)
             /\ ({color1, color2} = {White, Gray(119)} => check.passes)
             /\ ({color1, color2} = {White, Gray(148)} => check.passes)
             /\ ({color1, color2} = {White, Gray(149)} => ~check.passes)

C4_Witness ==
    /\ check.type = "text"
    /\ check.required = 4500
    /\ color1 = Gray(118)
    /\ color2 = White
    /\ check.passes
    /\ check.ratio = 454

\* C6: a text check requires 3.0 only for large text, i.e. an estimated
\* size of at least 18pt (the analyzer has no bold information, so no
\* region is known to be bold), and 4.5 otherwise; a color-sample check
\* always requires 3.0.
C6_RequiredRatio ==
    /\ check.type = "text"
          => check.required =
                (IF check.estimated_font_size >= 18 * 4 THEN 3000 ELSE 4500)
    /\ check.type = "color_sample" => check.required = 3000

\* C24 (as stated): in every check record the passes flag agrees with the
\* reported ratio (rounded to 2 decimals) and the reported threshold:
\* passes is true if and only if ratio >= required.
CheckMade == check.type \in {"text", "color_sample"}

C24_Original ==
    CheckMade => (check.passes <=> check.ratio * 10 >= check.required)

\* C24 (amended): passes is decided on the unrounded ratio; a record that
\* passes reports a ratio >= required, a record whose reported ratio
\* exceeds required passes, and a record whose reported ratio equals
\* required may fail (the ratio was rounded up to it).
C24_Amended ==
    CheckMade
        => /\ check.passes
                 <=> calculate_contrast_ratio(color1, color2) >= check.required
           /\ check.ratio = round2(calculate_contrast_ratio(color1, color2))
           /\ check.passes => check.ratio * 10 >= check.required
           /\ check.ratio * 10 > check.required => check.passes

C24_Witness ==
    /\ check.type = "color_sample"
    /\ {color1, color2} = {White, Gray(149)}
    /\ check.ratio = 300
    /\ check.required = 3000
    /\ ~check.passes

\* C13: for foreground #777777 (119,119,119) on background #808080
\* (128,128,128) both the text check and the color-sample check report a
\* ratio below 3.0 and passes = False.
NearGrays == color1 = Gray(119) /\ color2 = Gray(128)

C13_NearGraysFail ==
    (NearGrays /\ check.type \in {"text", "color_sample"})
        => /\ check.ratio < 300
           /\ ~check.passes
           /\ check.fg_color = rgb_to_hex(Gray(119))
           /\ check.bg_color = rgb_to_hex(Gray(128))

C13_Witness ==
    /\ NearGrays
    /\ check.type = "color_sample"
    /\ check.ratio = 113
    /\ check.severity = "MEDIUM"


(***************************************************************************)
(* ColorContrastAnalyzer: one command line run (main).                     *)
(*                                                                         *)
(* A screenshot is [kind, mode]: kind "ok" (the file exists and its        *)
(* analysis completes), "missing" (os.path.exists is false), "unreadable"  *)
(* (Image.open raises) or "raises" (a later step of the analysis raises,   *)
(* e.g. a truncated file or an image too small to sample); mode is the     *)
(* PIL mode of an ok image: "RGB" (3-D pixel array), "L" (2-D array) or    *)
(* "LA" (gray with alpha: a 3-D array with two channels).                  *)
(* The path of a screenshot is its position in self.screenshots.           *)
(***************************************************************************)
OkShots == {[kind |-> "ok", mode |-> m] : m \in {"RGB", "L", "LA"}}
BadShot(k) == [kind |-> k, mode |-> "none"]
ExistingShots == OkShots \cup {BadShot("unreadable"), BadShot("raises")}
AllShots == ExistingShots \cup {BadShot("missing")}

\* What OCR can report for an image: text regions with the color of the
\* pixel at the box centre (fg) and the average color of the window around
\* it (bg).  The window contains the centre pixel, so around a black or gray
\* pixel the average stays below white.
TextRegions ==
    {[h |-> 16, fg |-> Black, bg |-> Gray(254)],
     [h |-> 16, fg |-> Gray(119), bg |-> Gray(254)],
     [h |-> 24, fg |-> Gray(119), bg |-> Gray(254)]}

\* What sample_color_pairs can draw from an image: the pixel at a random
\* point (fg) and the average of the window around it (bg).
SamplePairs ==
    {[fg |-> Black, bg |-> Gray(254)],
     [fg |-> Gray(119), bg |-> Gray(128)]}

\* The same for an image with two channels: a gray value and alpha.
TextRegionsLA == {[h |-> 16, fg |-> <<0, 255>>, bg |-> <<254, 255>>]}
SamplePairsLA == {[fg |-> <<0, 255>>, bg |-> <<254, 255>>]}

text_regions_of(shot) == IF shot.mode = "LA" THEN TextRegionsLA ELSE TextRegions
color_pairs_of(shot) == IF shot.mode = "LA" THEN SamplePairsLA ELSE SamplePairs

\* "if contrast_check:" drops what a check method returned as None
IsCheck(c) == c # NoCheck

Checks(text_regions, color_pairs) ==
    SelectSeq(
        [i \in 1..Len(text_regions) |-> check_text_contrast(text_regions[i])]
            \o [i \in 1..Len(color_pairs) |-> check_color_pair_contrast(color_pairs[i])],
        IsCheck)

IsPass(c) == c.passes
IsIssue(c) == ~c.passes

\* analyze_screenshot on an image whose analysis completes: text_regions is
\* what detect_text_regions_ocr returned, color_pairs what
\* sample_color_pairs returned (empty when it was not called).
analyze_screenshot(path, tesseract, text_regions, color_pairs) ==
    LET checks == Checks(text_regions, color_pairs)
        passed == SelectSeq(checks, IsPass)
        issues == SelectSeq(checks, IsIssue)
        total_checks == Len(issues) + Len(passed)
    IN [screenshot |-> path,
        \* -1: the key is absent (it is set only when OCR is available)
        text_regions_found |-> IF tesseract THEN Len(text_regions) ELSE -1,
        issues |-> issues,
        passed |-> passed,
        summary |-> [total_checks |-> total_checks,
                     passed |-> Len(passed),
                     failed |-> Len(issues),
                     pass_rate |-> IF total_checks > 0
                                   THEN (Len(passed) * 1000) \div total_checks
                                   ELSE 0,
                     wcag_compliant |-> Len(issues) = 0]]

\* a sum that keeps only the last result's count
SumOver_last(results, field) ==
    IF results = <<>> THEN 0 ELSE results[Len(results)].summary[field]

RECURSIVE SumOver(_, _)
SumOver(results, field) ==
    IF results = <<>> THEN 0
    ELSE Head(results).summary[field] + SumOver(Tail(results), field)

get_summary(results) ==
    IF results = <<>>
    THEN [screenshots_analyzed |-> 0,
          total_checks |-> 0,
          total_passed |-> 0,
          total_failed |-> 0,
          overall_pass_rate |-> 0,
          wcag_compliant |-> FALSE]
    ELSE LET total_checks == SumOver(results, "total_checks")
             total_passed == SumOver(results, "passed")
             total_failed == SumOver(results, "failed")
         IN [screenshots_analyzed |-> Len(results),
             total_checks |-> total_checks,
             total_passed |-> total_passed,
             total_failed |-> total_failed,
             overall_pass_rate |-> IF total_checks > 0
                                   THEN (total_passed * 1000) \div total_checks
                                   ELSE 0,
             wcag_compliant |-> total_failed = 0]

\* json.dump accepts a result unless it holds a check made on a 2-D pixel
\* array: there the foreground sample is a tuple of numpy scalars, the ratio
\* a numpy float and passes a numpy bool, which json cannot serialize.
JsonSerializable(shots, results) ==
    \A i \in 1..Len(results) :
        shots[results[i].screenshot].mode = "L" => results[i].summary.total_checks = 0

\* the fallback condition with its second disjunct left out
use_color_sampling_without_ocr_only(tesseract, text_regions) == ~tesseract

\* "Use this if Tesseract not available OR if no text regions found"
use_color_sampling(tesseract, text_regions) ==
    ~tesseract \/ Len(text_regions) = 0

NoReport == [state |-> "none"]

InitAnalyzer ==
    /\ pc = "start"
    /\ argv = "none"
    /\ TESSERACT_AVAILABLE \in BOOLEAN
    /\ screenshots = <<>>
    /\ next_shot = 1
    /\ contrast_results = <<>>
    /\ report = NoReport
    /\ exit_code = -1

\* main, up to the call of analyze_all_screenshots.
main_usage ==
    /\ pc = "start"
    /\ argv' = "usage"
    /\ exit_code' = 1
    /\ pc' = "exited"
    /\ UNCHANGED <<TESSERACT_AVAILABLE, screenshots, next_shot, contrast_results, report>>
    /\ Frame("analyzer")

main_screenshot ==
    /\ pc = "start"
    /\ argv' = "--screenshot"
    /\ \E shot \in AllShots : screenshots' = <<shot>>
    /\ pc' = "analyze_all"
    /\ UNCHANGED <<TESSERACT_AVAILABLE, next_shot, contrast_results, report, exit_code>>
    /\ Frame("analyzer")

main_capture ==
    /\ pc = "start"
    /\ argv' = "--capture"
    /\ \/ /\ exit_code' = 1
          /\ pc' = "exited"
          /\ UNCHANGED screenshots
       \/ /\ screenshots' = <<[kind |-> "ok", mode |-> "RGB"]>>
          /\ pc' = "analyze_all"
          /\ UNCHANGED exit_code
    /\ UNCHANGED <<TESSERACT_AVAILABLE, next_shot, contrast_results, report>>
    /\ Frame("analyzer")

main_directory ==
    /\ pc = "start"
    /\ argv' = "directory"
    /\ \E shots \in BSeq(ExistingShots, MaxShots) : screenshots' = shots
    /\ pc' = "analyze_all"
    /\ UNCHANGED <<TESSERACT_AVAILABLE, next_shot, contrast_results, report, exit_code>>
    /\ Frame("analyzer")

\* Mutant of analyze_all_screenshots: with nothing to analyze the run
\* exits at once instead of returning False to main.
analyze_all_screenshots_exit ==
    /\ pc = "analyze_all"
    /\ IF screenshots = <<>>
       THEN pc' = "exited" /\ exit_code' = 1
       ELSE pc' = "loop" /\ UNCHANGED exit_code
    /\ UNCHANGED <<argv, TESSERACT_AVAILABLE, screenshots, next_shot,
                   contrast_results, report>>
    /\ Frame("analyzer")

analyze_all_screenshots ==
    /\ pc = "analyze_all"
    /\ pc' = IF screenshots = <<>> THEN "save" ELSE "loop"
    /\ UNCHANGED <<argv, TESSERACT_AVAILABLE, screenshots, next_shot,
                   contrast_results, report, exit_code>>
    /\ Frame("analyzer")

\* One iteration of the loop of analyze_all_screenshots.
AnalyzeNext ==
    /\ pc = "loop"
    /\ LET shot == screenshots[next_shot] IN
         IF shot.kind # "ok"
         THEN UNCHANGED contrast_results
         ELSE \E text_regions \in
                   (IF TESSERACT_AVAILABLE
                    THEN BSeq(text_regions_of(shot), MaxRegions) ELSE {<<>>}) :
              \E color_pairs \in
                   (IF use_color_sampling(TESSERACT_AVAILABLE, text_regions)
                    THEN [1..NumSamples -> color_pairs_of(shot)] ELSE {<<>>}) :
                contrast_results' =
                    Append(contrast_results,
                           analyze_screenshot(next_shot, TESSERACT_AVAILABLE,
                                              text_regions, color_pairs))
    /\ next_shot' = next_shot + 1
    /\ pc' = IF next_shot = Len(screenshots) THEN "save" ELSE "loop"
    /\ UNCHANGED <<argv, TESSERACT_AVAILABLE, screenshots, report, exit_code>>
    /\ Frame("analyzer")

save_report ==
    /\ pc = "save"
    /\ IF JsonSerializable(screenshots, contrast_results)
       THEN /\ report' = [state |-> "written",
                          summary |-> get_summary(contrast_results),
                          results |-> contrast_results]
            /\ pc' = "exit"
            /\ UNCHANGED exit_code
       ELSE /\ report' = [state |-> "truncated"]
            /\ pc' = "exited"
            /\ exit_code' = 1
    /\ UNCHANGED <<argv, TESSERACT_AVAILABLE, screenshots, next_shot, contrast_results>>
    /\ Frame("analyzer")

main_exit ==
    /\ pc = "exit"
    /\ exit_code' = IF get_summary(contrast_results).wcag_compliant THEN 0 ELSE 1
    /\ pc' = "exited"
    /\ UNCHANGED <<argv, TESSERACT_AVAILABLE, screenshots, next_shot,
                   contrast_results, report>>
    /\ Frame("analyzer")

Init == InitAnalyzer /\ Idle({"analyzer"})

Next ==
    \/ main_usage
    \/ main_screenshot
    \/ main_capture
    \/ main_directory
    \/ analyze_all_screenshots
    \/ AnalyzeNext
    \/ save_report
    \/ main_exit

Spec == Init /\ [][Next]_vars


(***************************************************************************)
(* Properties of the analyzer run (under Spec).                            *)
(***************************************************************************)
RunEnded == pc = "exited"
FailedCheck == \E i \in 1..Len(contrast_results) : contrast_results[i].issues # <<>>
IOError == \E i \in 1..Len(screenshots) : screenshots[i].kind # "ok"
ResultPaths == [i \in 1..Len(contrast_results) |-> contrast_results[i].screenshot]
OkPathsBefore(n) ==
    SelectSeq([i \in 1..(n - 1) |-> i], LAMBDA i : screenshots[i].kind = "ok")
Analyzing == pc \in {"loop", "save", "exit"} \/ (RunEnded /\ report # NoReport)

\* C7: a run that analyzed its screenshots and wrote its report exits with
\* a non-zero code if and only if a check failed or a screenshot was
\* missing, unreadable or raised during analysis.
C7_ExitCode ==
    (RunEnded /\ report.state = "written" /\ screenshots # <<>>)
        => ((exit_code # 0) <=> (FailedCheck \/ IOError))

\* C8: a bad screenshot is skipped and appends nothing, the later ones are
\* still analyzed, contrast_results holds exactly the analyzed screenshots
\* in input order, and main still writes the report.
C8_NeverAborts ==
    /\ Analyzing => ResultPaths = OkPathsBefore(next_shot)
    /\ (Analyzing /\ pc # "loop") => next_shot = Len(screenshots) + 1
    /\ (RunEnded /\ IOError) => report.state = "written"

\* C14: a screenshot is analyzed and yields a result whether or not OCR is
\* available; its result holds color-sample checks (criterion 1.4.11)
\* exactly when OCR was unavailable or returned no text region (and the
\* checks on its pixels do not raise), and then nothing else; when OCR returned a text region the result holds only
\* text checks (criterion 1.4.3).
AllChecks(result) == result.issues \o result.passed
HasChecks(result, type) ==
    \E k \in 1..Len(AllChecks(result)) : AllChecks(result)[k].type = type
OnlyChecks(result, type, criterion) ==
    \A k \in 1..Len(AllChecks(result)) :
        /\ AllChecks(result)[k].type = type
        /\ AllChecks(result)[k].wcag_criterion = criterion
OcrUnavailable(result) == result.text_regions_found = -1
\* the checks of the image do not raise (they do on two-channel pixels)
Checkable(result) == screenshots[result.screenshot].mode # "LA"

C14_SamplingFallback ==
    /\ Analyzing => ResultPaths = OkPathsBefore(next_shot)
    /\ \A i \in 1..Len(contrast_results) :
         LET result == contrast_results[i] IN
           /\ OcrUnavailable(result) <=> ~TESSERACT_AVAILABLE
           /\ HasChecks(result, "color_sample")
                 => /\ OcrUnavailable(result) \/ result.text_regions_found = 0
                    /\ OnlyChecks(result, "color_sample", "1.4.11")
           /\ ((OcrUnavailable(result) \/ result.text_regions_found = 0)
                   /\ Checkable(result))
                 => /\ HasChecks(result, "color_sample")
                    /\ Len(AllChecks(result)) = NumSamples
           /\ result.text_regions_found > 0
                 => /\ OnlyChecks(result, "text", "1.4.3")
                    /\ Checkable(result)
                          => Len(AllChecks(result)) = result.text_regions_found

C14_Witness ==
    /\ TESSERACT_AVAILABLE
    /\ Len(contrast_results) = 2
    /\ contrast_results[1].text_regions_found = 0
    /\ HasChecks(contrast_results[1], "color_sample")
    /\ contrast_results[2].text_regions_found = 2
    /\ HasChecks(contrast_results[2], "text")

\* C18: after any sequence of analyses every result in contrast_results
\* has total_checks = passed + failed = len(passed) + len(issues),
\* wcag_compliant iff failed = 0 and pass_rate = 0 when total_checks = 0;
\* get_summary's total_checks, total_passed and total_failed are the sums
\* of those fields over contrast_results and screenshots_analyzed is
\* len(contrast_results).
ChecksIn(list) ==
    UNION {{<<i, k>> : k \in 1..Len(contrast_results[i][list])} :
              i \in 1..Len(contrast_results)}

ResultConsistent(result) ==
    /\ result.summary.total_checks = result.summary.passed + result.summary.failed
    /\ result.summary.passed = Len(result.passed)
    /\ result.summary.failed = Len(result.issues)
    /\ result.summary.wcag_compliant <=> result.summary.failed = 0
    /\ result.summary.total_checks = 0 => result.summary.pass_rate = 0

C18_SummaryConsistent ==
    /\ \A i \in 1..Len(contrast_results) : ResultConsistent(contrast_results[i])
    /\ LET summary == get_summary(contrast_results) IN
         /\ summary.screenshots_analyzed = Len(contrast_results)
         /\ summary.total_passed = Cardinality(ChecksIn("passed"))
         /\ summary.total_failed = Cardinality(ChecksIn("issues"))
         /\ summary.total_checks = summary.total_passed + summary.total_failed
    /\ report.state = "written" => report.summary = get_summary(contrast_results)

C18_Witness ==
    /\ report.state = "written"
    /\ Len(contrast_results) = 2
    /\ report.summary.total_checks = 4
    /\ report.summary.total_passed = 3
    /\ report.summary.total_failed = 1
    /\ contrast_results[1].summary.failed = 1
    /\ contrast_results[2].summary.failed = 0

\* C28: get_summary reports wcag_compliant true only if at least one
\* contrast check was performed (total_checks > 0) and none failed; with
\* zero analyzed screenshots it reports wcag_compliant false.
C28_CompliantNeedsChecks ==
    LET summary == get_summary(contrast_results) IN
      /\ summary.wcag_compliant
            => (summary.total_checks > 0 /\ summary.total_failed = 0)
      /\ contrast_results = <<>> => ~summary.wcag_compliant

\* C9: with no input image at all (empty or missing directory) the run
\* writes a report with no results and zero counts, and only then exits
\* with a non-zero code.
C9_EmptyRun ==
    (argv = "directory" /\ screenshots = <<>>)
        => /\ exit_code # -1 => report.state = "written"
           /\ RunEnded => exit_code = 1
           /\ report.state = "written"
                 => /\ report.results = <<>>
                    /\ report.summary.screenshots_analyzed = 0
                    /\ report.summary.total_checks = 0
                    /\ report.summary.total_passed = 0
                    /\ report.summary.total_failed = 0

C9_Witness ==
    /\ argv = "directory"
    /\ screenshots = <<>>
    /\ RunEnded
    /\ exit_code = 1
    /\ report.state = "written"


(***************************************************************************)
(* ColorBlindSimulator: the color-vision-deficiency transform, on one      *)
(* pixel.  Matrix coefficients are in thousandths.                         *)
(***************************************************************************)
TRANSFORMATIONS ==
    [protanopia |->
        [severity |-> "complete",
         matrix |-> <<<<567, 433, 0>>, <<558, 442, 0>>, <<0, 242, 758>>>>],
     deuteranopia |->
        [severity |-> "complete",
         matrix |-> <<<<625, 375, 0>>, <<700, 300, 0>>, <<0, 300, 700>>>>],
     tritanopia |->
        [severity |-> "complete",
         matrix |-> <<<<950, 50, 0>>, <<0, 433, 567>>, <<0, 475, 525>>>>],
     protanomaly |->
        [severity |-> "partial",
         matrix |-> <<<<817, 183, 0>>, <<333, 667, 0>>, <<0, 125, 875>>>>],
     deuteranomaly |->
        [severity |-> "partial",
         matrix |-> <<<<800, 200, 0>>, <<258, 742, 0>>, <<0, 142, 858>>>>],
     tritanomaly |->
        [severity |-> "partial",
         matrix |-> <<<<967, 33, 0>>, <<0, 733, 267>>, <<0, 183, 817>>>>],
     achromatopsia |->
        [severity |-> "complete",
         matrix |-> <<<<299, 587, 114>>, <<299, 587, 114>>, <<299, 587, 114>>>>],
     achromatomaly |->
        [severity |-> "complete",
         matrix |-> <<<<618, 320, 62>>, <<163, 775, 62>>, <<163, 320, 516>>>>]]

\* Mutant of TransformationMatrix: the blue weight of the second row of the
\* achromatopsia matrix mistyped (0.144 for 0.114).
TransformationMatrix_typo(cvd_type) ==
    IF cvd_type = "achromatopsia"
    THEN <<<<299, 587, 114>>, <<299, 587, 144>>, <<299, 587, 114>>>>
    ELSE TRANSFORMATIONS[cvd_type].matrix

\* self.TRANSFORMATIONS[cvd_type]['matrix']
TransformationMatrix(cvd_type) == TRANSFORMATIONS[cvd_type].matrix

CVDTypes == DOMAIN TRANSFORMATIONS

\* np.dot(pixels, matrix.T), one output channel: the pixel is v/255 per
\* channel, so the product is in units of 1/255000.
Dot(row, rgb) == row[1] * rgb[1] + row[2] * rgb[2] + row[3] * rgb[3]

\* np.clip(x, 0, 1)
Clip(x) == Max(0, Min(x, 255000))

\* Mutant of Rescale: 256 levels instead of 255.
Rescale_256(x) == (x * 256) \div 255000

\* x * 255, truncated toward zero as astype does for a value in range
Rescale(x) == x \div 1000

\* astype(np.uint8) of an integral value
ToUint8(x) == x % 256

\* simulate_colorblindness on one pixel: the rescaled channels before the
\* conversion to uint8, and the pixel of the simulated image.
simulate_colorblindness(cvd_type, rgb) ==
    LET matrix == TransformationMatrix(cvd_type)
        scaled == [i \in 1..3 |-> Rescale(Clip(Dot(matrix[i], rgb)))]
    IN [cvd_type |-> cvd_type,
        scaled |-> scaled,
        pixel |-> [i \in 1..3 |-> ToUint8(scaled[i])]]

CvdGrid == {v \in 0..255 : v % CvdGridStep = 0} \cup {255}
CvdColors == CvdGrid \X CvdGrid \X CvdGrid

InitCVD ==
    /\ pixel \in CvdColors
    /\ simulation = [cvd_type |-> "none"]
    /\ Idle({"cvd"})

Simulate ==
    /\ simulation.cvd_type = "none"
    /\ \E cvd_type \in CVDTypes :
         simulation' = simulate_colorblindness(cvd_type, pixel)
    /\ UNCHANGED pixel
    /\ Frame("cvd")

NextCVD == Simulate

SpecCVD == InitCVD /\ [][NextCVD]_vars

(***************************************************************************)
(* Properties of the transform (under SpecCVD).                            *)
(***************************************************************************)
Simulated == simulation.cvd_type # "none"

\* C10: for each of the 8 variants and every input pixel, every channel of
\* the simulated pixel lies in 0..255: the clamped, rescaled value is in
\* that range before the conversion to 8 bits, which therefore never wraps.
C10_ChannelRange ==
    Simulated =>
        \A i \in 1..3 :
            /\ simulation.scaled[i] \in 0..255
            /\ simulation.pixel[i] \in 0..255
            /\ simulation.pixel[i] = simulation.scaled[i]

C10_Witness ==
    /\ Simulated
    /\ simulation.cvd_type = "deuteranopia"
    /\ pixel = <<255, 0, 0>>
    /\ simulation.pixel = <<159, 178, 0>>


\* C11: under achromatopsia every simulated pixel has R = G = B, whatever
\* the input pixel.
C11_AchromatopsiaGray ==
    (Simulated /\ simulation.cvd_type = "achromatopsia")
        => /\ simulation.pixel[1] = simulation.pixel[2]
           /\ simulation.pixel[2] = simulation.pixel[3]

C11_Witness ==
    /\ Simulated
    /\ simulation.cvd_type = "achromatopsia"
    /\ pixel = <<255, 0, 0>>
    /\ simulation.pixel = <<76, 76, 76>>


(***************************************************************************)
(* ColorContrastAnalyzer: the color sampler, on an image of two colors     *)
(* (ink on paper).  A sample is taken at a point: the foreground is the    *)
(* pixel at the point, the background the mean of the square window of     *)
(* side 2 * radius around it (the window contains the point itself).       *)
(* Of the window only the number of ink pixels matters.                    *)
(***************************************************************************)
\* img_array[y1:y2, x1:x2] for a window that the image border does not cut
WindowPixels(radius) == (2 * radius) * (2 * radius)

\* get_pixel_color: the pixel at the sample point
get_pixel_color(image, centre) == IF centre = "ink" THEN image.ink ELSE image.paper

\* get_surrounding_color: np.mean over the window, per channel, truncated
\* to an integer
get_surrounding_color(image, centre, ink_pixels, radius) ==
    LET n == WindowPixels(radius)
    IN [c \in 1..3 |->
            (ink_pixels * image.ink[c] + (n - ink_pixels) * image.paper[c]) \div n]

\* The numbers of ink pixels considered for a window of n pixels whose
\* centre is given.
InkCounts(n, centre) ==
    {k \in {0, 1, n \div 4, n \div 2, n - 1, n} :
        /\ centre = "ink" => k >= 1
        /\ centre = "paper" => k <= n - 1}

SampleImages ==
    {[ink |-> Black, paper |-> White],
     [ink |-> Gray(119), paper |-> Gray(128)]}

InitSampler ==
    /\ sample_image \in SampleImages
    /\ sampled = [type |-> "none"]
    /\ Idle({"sampler"})

\* One iteration of sample_color_pairs followed by check_color_pair_contrast.
SampleColorPair ==
    /\ sampled = [type |-> "none"]
    /\ \E centre \in {"ink", "paper"} :
       \E k \in InkCounts(WindowPixels(SampleRadius), centre) :
         LET fg_color == get_pixel_color(sample_image, centre)
             bg_color == get_surrounding_color(sample_image, centre, k, SampleRadius)
         IN sampled' = [type |-> "color_sample",
                        centre |-> centre,
                        ink_pixels |-> k,
                        fg |-> fg_color,
                        bg |-> bg_color,
                        check |-> check_color_pair_contrast(
                                      [fg |-> fg_color, bg |-> bg_color])]
    /\ UNCHANGED sample_image
    /\ Frame("sampler")

\* check_text_contrast on a region of height h found by OCR: the sample
\* point is the centre of the box, the window radius h // 2 + 5.
SampleTextRegion ==
    /\ sampled = [type |-> "none"]
    /\ \E h \in 1..MaxHeight :
       \E centre \in {"ink", "paper"} :
       \E k \in InkCounts(WindowPixels(h \div 2 + 5), centre) :
         LET fg_color == get_pixel_color(sample_image, centre)
             bg_color == get_surrounding_color(sample_image, centre, k, h \div 2 + 5)
         IN sampled' = [type |-> "text",
                        centre |-> centre,
                        ink_pixels |-> k,
                        fg |-> fg_color,
                        bg |-> bg_color,
                        check |-> check_text_contrast(
                                      [h |-> h, fg |-> fg_color, bg |-> bg_color])]
    /\ UNCHANGED sample_image
    /\ Frame("sampler")

NextSampler == SampleColorPair \/ SampleTextRegion

SpecSampler == InitSampler /\ [][NextSampler]_vars

(***************************************************************************)
(* Properties of the sampler (under SpecSampler).                          *)
(***************************************************************************)
Sampled == sampled.type # "none"
BlackOnWhite == sample_image = [ink |-> Black, paper |-> White]

\* C12: on an image of pure black content on a pure white background every
\* check recorded has ratio 21.0 (to within 0.5) and passes, whether 4.5 or
\* 3.0 is required; the foreground is the pixel at the sample point and the
\* background the truncated mean of the window around it.
C12_BlackOnWhite ==
    (Sampled /\ BlackOnWhite)
        => /\ sampled.check.passes
           /\ sampled.check.ratio >= 2050
           /\ sampled.fg = get_pixel_color(sample_image, sampled.centre)

(***************************************************************************)
(* app_launcher.py: an AppLauncher driven by main or by the coordinator's  *)
(* run_quick_win_1.  The application is a process of the operating system  *)
(* and can exit on its own between any two steps of the launcher.          *)
(***************************************************************************)
InitLauncher ==
    /\ launcher_pc = "start"
    /\ driver \in {"main", "run_quick_win_1"}
    /\ exe_path \in ExePaths
    /\ monitor_duration \in 0..MaxDuration
    /\ process = NoProcess
    /\ app = NoApp
    /\ metrics = NoMetrics
    /\ launched = FALSE
    /\ monitor_i = 0
    /\ cpu_samples = 0
    /\ signals = <<>>
    /\ launch_report = NoLaunchReport
    /\ launcher_exit_code = -1
    /\ Idle({"launcher"})

\* Popen.poll(): the return code once the process has exited, else None
poll(proc, a) ==
    IF proc.returncode # None THEN proc.returncode
    ELSE IF a.state = "exited" THEN a.code ELSE None

AddError(m, error) == [m EXCEPT !.errors = Append(@, error)]

\* the application exits by itself
AppExits ==
    /\ app.state = "running"
    /\ \E code \in ExitCodes : app' = [state |-> "exited", code |-> code]
    /\ UNCHANGED <<launcher_pc, driver, exe_path, monitor_duration, process,
                   metrics, launched, monitor_i, cpu_samples, signals,
                   launch_report, launcher_exit_code>>
    /\ Frame("launcher")

\* main without an argument: usage, exit 1
launcher_main_usage ==
    /\ launcher_pc = "start"
    /\ driver = "main"
    /\ exe_path = "none"
    /\ launcher_exit_code' = 1
    /\ launcher_pc' = "done"
    /\ UNCHANGED <<driver, exe_path, monitor_duration, process, app, metrics,
                   launched, monitor_i, cpu_samples, signals, launch_report>>
    /\ Frame("launcher")

\* run_quick_win_1 without exe_path in the config: skipped, returns None
run_quick_win_1_skip ==
    /\ launcher_pc = "start"
    /\ driver = "run_quick_win_1"
    /\ exe_path = "none"
    /\ launcher_pc' = "done"
    /\ UNCHANGED <<driver, exe_path, monitor_duration, process, app, metrics,
                   launched, monitor_i, cpu_samples, signals, launch_report,
                   launcher_exit_code>>
    /\ Frame("launcher")

\* launch(): the executable does not exist
launch_not_found ==
    /\ launcher_pc = "start"
    /\ exe_path = "missing"
    /\ metrics' = AddError(metrics, "Executable not found")
    /\ launched' = FALSE
    /\ launcher_pc' = "save"
    /\ UNCHANGED <<driver, exe_path, monitor_duration, process, app,
                   monitor_i, cpu_samples, signals, launch_report,
                   launcher_exit_code>>
    /\ Frame("launcher")

\* launch(): subprocess.Popen starts the process or raises
launch_popen ==
    /\ launcher_pc = "start"
    /\ exe_path \in {"unlaunchable", "app"}
    /\ IF exe_path = "unlaunchable"
       THEN /\ metrics' = AddError(metrics, "Failed to launch application")
            /\ launcher_pc' = "save"
            /\ UNCHANGED <<process, app>>
       ELSE /\ process' = [started |-> TRUE, returncode |-> None]
            /\ app' = [state |-> "running", code |-> None]
            /\ launcher_pc' = "launch_poll"
            /\ UNCHANGED metrics
    /\ launched' = FALSE
    /\ UNCHANGED <<driver, exe_path, monitor_duration, monitor_i, cpu_samples,
                   signals, launch_report, launcher_exit_code>>
    /\ Frame("launcher")

\* launch(): after the two seconds, poll; the driver goes on to monitor()
\* only if launch() returned True
launch_poll ==
    /\ launcher_pc = "launch_poll"
    /\ process' = [process EXCEPT !.returncode = poll(process, app)]
    /\ IF poll(process, app) # None
       THEN /\ metrics' = [AddError(metrics, "Process exited immediately")
                              EXCEPT !.crash_detected = TRUE]
            /\ launched' = FALSE
            /\ launcher_pc' = "save"
       ELSE /\ metrics' = [metrics EXCEPT !.launch_time = "set"]
            /\ launched' = TRUE
            /\ launcher_pc' = "monitor"
    /\ UNCHANGED <<driver, exe_path, monitor_duration, app, monitor_i,
                   cpu_samples, signals, launch_report, launcher_exit_code>>
    /\ Frame("launcher")

\* monitor(): psutil.Process(pid) finds the process (a process that has
\* exited may still be found, or raise NoSuchProcess, which the outer
\* handler records as a monitoring error)
monitor_begin ==
    /\ launcher_pc = "monitor"
    /\ IF ~process.started
       THEN /\ launcher_pc' = "terminate"
            /\ UNCHANGED metrics
       ELSE \E found \in (IF app.state = "exited" THEN BOOLEAN ELSE {TRUE}) :
              IF found
              THEN /\ launcher_pc' = "monitor_poll"
                   /\ UNCHANGED metrics
              ELSE /\ metrics' = AddError(metrics, "Monitoring error")
                   /\ launcher_pc' = "terminate"
    /\ monitor_i' = 0
    /\ cpu_samples' = 0
    /\ UNCHANGED <<driver, exe_path, monitor_duration, process, app, launched,
                   signals, launch_report, launcher_exit_code>>
    /\ Frame("launcher")

\* monitor(): top of the loop, "if self.process.poll() is not None"
monitor_poll ==
    /\ launcher_pc = "monitor_poll"
    /\ IF monitor_i >= monitor_duration
       THEN /\ launcher_pc' = "terminate"
            /\ UNCHANGED <<process, metrics>>
       ELSE /\ process' = [process EXCEPT !.returncode = poll(process, app)]
            /\ IF poll(process, app) # None
               THEN /\ metrics' = [metrics EXCEPT !.crash_detected = TRUE]
                    /\ launcher_pc' = "terminate"
               ELSE /\ launcher_pc' = "monitor_sample"
                    /\ UNCHANGED metrics
    /\ UNCHANGED <<driver, exe_path, monitor_duration, app, launched,
                   monitor_i, cpu_samples, signals, launch_report,
                   launcher_exit_code>>
    /\ Frame("launcher")

\* what cpu_percent and memory_info can do: return a sample, raise
\* NoSuchProcess (only for a process that has exited), or raise another
\* psutil error
SampleOutcomes(a) ==
    {"sample", "error"} \cup (IF a.state = "exited" THEN {"NoSuchProcess"} ELSE {})

\* monitor(): one sample of CPU and memory
monitor_sample ==
    /\ launcher_pc = "monitor_sample"
    /\ \E outcome \in SampleOutcomes(app) :
         IF outcome = "sample"
         THEN /\ cpu_samples' = cpu_samples + 1
              /\ monitor_i' = monitor_i + 1
              /\ launcher_pc' = "monitor_poll"
              /\ UNCHANGED metrics
         ELSE /\ metrics' = IF outcome = "NoSuchProcess"
                            THEN [metrics EXCEPT !.crash_detected = TRUE]
                            ELSE AddError(metrics, "Monitoring error")
              /\ launcher_pc' = "terminate"
              /\ UNCHANGED <<cpu_samples, monitor_i>>
    /\ UNCHANGED <<driver, exe_path, monitor_duration, process, app, launched,
                   signals, launch_report, launcher_exit_code>>
    /\ Frame("launcher")

\* "if self.process" alone, without the poll
terminate_applies_unpolled(proc, a) == proc.started

\* terminate(): "if self.process and self.process.poll() is None"
terminate_applies(proc, a) == proc.started /\ poll(proc, a) = None

terminate_poll ==
    /\ launcher_pc = "terminate"
    /\ process' = IF process.started
                  THEN [process EXCEPT !.returncode = poll(process, app)]
                  ELSE process
    /\ launcher_pc' = IF terminate_applies(process, app)
                      THEN "terminate_request" ELSE "save"
    /\ UNCHANGED <<driver, exe_path, monitor_duration, app, metrics, launched,
                   monitor_i, cpu_samples, signals, launch_report,
                   launcher_exit_code>>
    /\ Frame("launcher")

\* what psutil.Process(pid) and proc.terminate() can do: deliver the
\* request, raise NoSuchProcess (only for a process that has exited), or
\* raise AccessDenied (only for a process that is running)
RequestOutcomes(a) ==
    {"sent"} \cup (IF a.state = "exited" THEN {"NoSuchProcess"} ELSE {"AccessDenied"})

\* terminate(): psutil.Process(pid), proc.terminate(); an error other than
\* TimeoutExpired is printed and terminate() returns
terminate_request ==
    /\ launcher_pc = "terminate_request"
    /\ \E outcome \in RequestOutcomes(app) :
         IF outcome = "sent"
         THEN /\ signals' = Append(signals, "terminate")
              /\ launcher_pc' = "terminate_wait"
         ELSE /\ launcher_pc' = "save"
              /\ UNCHANGED signals
    /\ UNCHANGED <<driver, exe_path, monitor_duration, process, app, metrics,
                   launched, monitor_i, cpu_samples, launch_report,
                   launcher_exit_code>>
    /\ Frame("launcher")

\* terminate(): proc.wait(timeout=10) returns when the process has exited,
\* else raises TimeoutExpired, which terminate() handles with proc.kill()
terminate_wait ==
    /\ launcher_pc = "terminate_wait"
    /\ launcher_pc' = IF app.state = "exited" THEN "save" ELSE "terminate_kill"
    /\ UNCHANGED <<driver, exe_path, monitor_duration, process, app, metrics,
                   launched, monitor_i, cpu_samples, signals, launch_report,
                   launcher_exit_code>>
    /\ Frame("launcher")

\* terminate(): proc.kill() in the handler of TimeoutExpired.  psutil raises
\* NoSuchProcess for a process that has exited since the wait timed out;
\* raised inside an except clause it leaves terminate() and its caller,
\* which has no handler: main ends with a traceback (exit code 1),
\* run_quick_win_1 passes the exception on to run_all
terminate_kill ==
    /\ launcher_pc = "terminate_kill"
    /\ IF app.state = "running"
       THEN /\ signals' = Append(signals, "kill")
            /\ launcher_pc' = "save"
            /\ UNCHANGED launcher_exit_code
       ELSE /\ launcher_pc' = "raised"
            /\ launcher_exit_code' = IF driver = "main" THEN 1 ELSE launcher_exit_code
            /\ UNCHANGED signals
    /\ UNCHANGED <<driver, exe_path, monitor_duration, process, app, metrics,
                   launched, monitor_i, cpu_samples, launch_report>>
    /\ Frame("launcher")

\* save_report of the launcher; run_quick_win_1 returns after it
launcher_save_report ==
    /\ launcher_pc = "save"
    /\ launch_report' = [state |-> "saved", metrics |-> metrics]
    /\ launcher_pc' = IF driver = "main" THEN "exit" ELSE "done"
    /\ UNCHANGED <<driver, exe_path, monitor_duration, process, app, metrics,
                   launched, monitor_i, cpu_samples, signals,
                   launcher_exit_code>>
    /\ Frame("launcher")

\* an exit status that looks at crash_detected only
launcher_exit_status_crash_only(m) == IF ~m.crash_detected THEN 0 ELSE 1

\* sys.exit(0 if not crash_detected and not errors else 1)
launcher_exit_status(m) ==
    IF ~m.crash_detected /\ m.errors = <<>> THEN 0 ELSE 1

launcher_main_exit ==
    /\ launcher_pc = "exit"
    /\ launcher_exit_code' = launcher_exit_status(metrics)
    /\ launcher_pc' = "done"
    /\ UNCHANGED <<driver, exe_path, monitor_duration, process, app, metrics,
                   launched, monitor_i, cpu_samples, signals, launch_report>>
    /\ Frame("launcher")

NextLauncher ==
    \/ AppExits
    \/ launcher_main_usage
    \/ run_quick_win_1_skip
    \/ launch_not_found
    \/ launch_popen
    \/ launch_poll
    \/ monitor_begin
    \/ monitor_poll
    \/ monitor_sample
    \/ terminate_poll
    \/ terminate_request
    \/ terminate_wait
    \/ terminate_kill
    \/ launcher_save_report
    \/ launcher_main_exit

SpecLauncher == InitLauncher /\ [][NextLauncher]_vars

\* the launcher's own steps: the script runs on, every blocking call it
\* makes returns (sleep, cpu_percent over an interval, wait with a timeout)
LauncherSteps ==
    \/ launcher_main_usage
    \/ run_quick_win_1_skip
    \/ launch_not_found
    \/ launch_popen
    \/ launch_poll
    \/ monitor_begin
    \/ monitor_poll
    \/ monitor_sample
    \/ terminate_poll
    \/ terminate_request
    \/ terminate_wait
    \/ terminate_kill
    \/ launcher_save_report
    \/ launcher_main_exit

SpecLauncherLive ==
    InitLauncher /\ [][NextLauncher]_vars /\ WF_vars(LauncherSteps)

(***************************************************************************)
(* Properties of the launcher                                              *)
(***************************************************************************)
MonitorPhase == launcher_pc \in {"monitor", "monitor_poll", "monitor_sample"}
TerminatePhase ==
    launcher_pc \in {"terminate", "terminate_request", "terminate_wait",
                     "terminate_kill"}
ExitObserved == process.returncode # None \/ metrics.crash_detected
LauncherDone == launcher_pc = "done"

\* C15: the application goes not-started -> running -> exited and makes no
\* other transition; monitor() and terminate() run only after launch()
\* returned True; an exit seen by the poll in launch() or in monitor() sets
\* crash_detected, and once an exit has been observed no further sample is
\* taken and no signal is sent.
LifecycleStep ==
    \/ app.state = "not_started" /\ app'.state = "running"
    \/ app.state = "running" /\ app'.state = "exited"
    \/ app' = app

C15_Lifecycle ==
    /\ []((MonitorPhase \/ TerminatePhase)
            => (launched /\ process.started /\ app.state # "not_started"))
    /\ [][LifecycleStep]_vars
    /\ [][(/\ launcher_pc \in {"launch_poll", "monitor_poll"}
           /\ process'.returncode # None)
              => metrics'.crash_detected]_vars
    /\ [][ExitObserved
              => /\ ExitObserved'
                 /\ cpu_samples' = cpu_samples
                 /\ signals' = signals]_vars

C15_Witness ==
    /\ LauncherDone
    /\ launched
    /\ metrics.crash_detected
    /\ process.returncode # None
    /\ cpu_samples = 1
    /\ signals = <<>>
    /\ app.state = "exited"

\* C19: main, given an executable path, saves the launch report on every
\* path and then exits 0 if and only if crash_detected is false and the
\* errors list is empty; a missing executable never spawns a process,
\* records one error and yields exit code 1.
MainRun == driver = "main" /\ exe_path # "none"
ReportSaved == launch_report = [state |-> "saved", metrics |-> metrics]

C19_ReportAndExit ==
    /\ [](MainRun =>
            /\ launcher_exit_code # -1
                  => /\ ReportSaved
                     /\ launcher_exit_code = 0
                           <=> (~metrics.crash_detected /\ metrics.errors = <<>>)
            /\ exe_path = "missing"
                  => /\ ~process.started
                     /\ app.state = "not_started"
                     /\ launcher_pc # "start"
                           => metrics.errors = <<"Executable not found">>
                     /\ launcher_exit_code \in {-1, 1})
    /\ MainRun ~> (ReportSaved /\ launcher_exit_code # -1)

C19_Witness ==
    /\ MainRun
    /\ exe_path = "app"
    /\ LauncherDone
    /\ ReportSaved
    /\ metrics.crash_detected
    /\ metrics.errors = <<>>
    /\ cpu_samples = 1
    /\ launcher_exit_code = 1

\* C20: terminate() sends the termination request first and the kill only
\* after it, and when it returns the application is no longer running or
\* has been sent a kill.
TerminateReturned == launched /\ launcher_pc \in {"save", "exit", "done"}

C20_TerminateStops ==
    /\ signals \in {<<>>, <<"terminate">>, <<"terminate", "kill">>}
    /\ TerminateReturned
          => (app.state = "exited" \/ signals = <<"terminate", "kill">>)

(***************************************************************************)
(* run_qw7_auto.py and run_qw7_interactive.py: main runs the focus test of *)
(* FocusIndicatorDetector inside try / except KeyboardInterrupt / except   *)
(* Exception.  The operator can press Ctrl+C, which raises                 *)
(* KeyboardInterrupt, or move the mouse into the screen corner, which      *)
(* makes pyautogui.press raise FailSafeException, a subclass of Exception. *)
(***************************************************************************)
Qw7Scripts == {"run_qw7_auto", "run_qw7_interactive"}

\* the detector's own command line runs the same test without a try: what
\* is raised ends the interpreter with a non-zero status
DetectorScripts == {"focus_indicator_detector"}

\* what can come out of one pass of the loop in test_focus_visibility
Raised == {"KeyboardInterrupt", "FailSafeException", "OSError"}

\* the classes an except clause of main matches
IsInstance(exception, class) ==
    \/ exception = class
    \/ class = "Exception" /\ exception \in {"FailSafeException", "OSError"}

\* except KeyboardInterrupt: sys.exit(2); except Exception: sys.exit(3)
except_exit_code(exception) ==
    IF IsInstance(exception, "KeyboardInterrupt") THEN 2
    ELSE IF IsInstance(exception, "Exception") THEN 3
    ELSE 1

\* the test record of an element: no change seen after Tab, an indicator
\* that fails contrast or thickness, or a compliant indicator
TestOutcomes ==
    {[has_focus_indicator |-> FALSE, wcag_compliant |-> FALSE],
     [has_focus_indicator |-> TRUE, wcag_compliant |-> FALSE],
     [has_focus_indicator |-> TRUE, wcag_compliant |-> TRUE]}

FocusSummary(results, passed, failed) ==
    [elements_tested |-> Len(results),
     with_indicators |-> passed,
     without_indicators |-> failed,
     compliance_rate |-> IF Len(results) > 0
                         THEN (passed * 1000) \div Len(results) ELSE 0,
     wcag_compliant |-> failed = 0]

Qw7Start ==
    /\ qw7_pc = "test"
    /\ qw7_script \in Qw7Scripts \cup DetectorScripts
    /\ element_i = 0
    /\ test_results = <<>>
    /\ passed_tests = 0
    /\ failed_tests = 0
    /\ qw7_raised = None
    /\ focus_report = [state |-> "none"]
    /\ qw7_exit_code = -1

InitQw7 == Qw7Start /\ Idle({"qw7"})

\* one pass of the loop whose screenshot or comparison failed: continue
test_element_skipped ==
    /\ qw7_pc = "test"
    /\ element_i < ElementCount
    /\ element_i' = element_i + 1
    /\ UNCHANGED <<qw7_pc, qw7_script, test_results, passed_tests, failed_tests,
                   qw7_raised, focus_report, qw7_exit_code>>
    /\ Frame("qw7")

\* one pass of the loop that records a test
test_element ==
    /\ qw7_pc = "test"
    /\ element_i < ElementCount
    /\ \E outcome \in TestOutcomes :
         /\ test_results' =
                Append(test_results,
                       [element_index |-> element_i + 1,
                        has_focus_indicator |-> outcome.has_focus_indicator,
                        wcag_compliant |-> outcome.wcag_compliant])
         /\ passed_tests' = Tally(passed_tests, outcome.wcag_compliant)
         /\ failed_tests' = Tally(failed_tests, ~outcome.wcag_compliant)
    /\ element_i' = element_i + 1
    /\ UNCHANGED <<qw7_pc, qw7_script, qw7_raised, focus_report, qw7_exit_code>>
    /\ Frame("qw7")

\* one pass of the loop in which something is raised: nothing in
\* test_focus_visibility catches it, so it reaches main's except clauses
test_element_raises ==
    /\ qw7_pc = "test"
    /\ element_i < ElementCount
    /\ \E exception \in Raised : qw7_raised' = exception
    /\ qw7_pc' = "except"
    /\ UNCHANGED <<qw7_script, element_i, test_results, passed_tests,
                   failed_tests, focus_report, qw7_exit_code>>
    /\ Frame("qw7")

\* the loop is over: save_report
focus_save_report ==
    /\ qw7_pc = "test"
    /\ element_i = ElementCount
    /\ focus_report' = [state |-> "saved",
                        summary |-> FocusSummary(test_results, passed_tests, failed_tests),
                        results |-> test_results]
    /\ qw7_pc' = "exit"
    /\ UNCHANGED <<qw7_script, element_i, test_results, passed_tests,
                   failed_tests, qw7_raised, qw7_exit_code>>
    /\ Frame("qw7")

\* sys.exit(0 if summary['wcag_compliant'] else 1)
qw7_exit ==
    /\ qw7_pc = "exit"
    /\ qw7_exit_code' =
          IF FocusSummary(test_results, passed_tests, failed_tests).wcag_compliant
          THEN 0 ELSE 1
    /\ qw7_pc' = "exited"
    /\ UNCHANGED <<qw7_script, element_i, test_results, passed_tests,
                   failed_tests, qw7_raised, focus_report>>
    /\ Frame("qw7")

\* the except clauses of main
qw7_except ==
    /\ qw7_pc = "except"
    /\ qw7_exit_code' = IF qw7_script \in Qw7Scripts
                         THEN except_exit_code(qw7_raised) ELSE 1
    /\ qw7_pc' = "exited"
    /\ UNCHANGED <<qw7_script, element_i, test_results, passed_tests,
                   failed_tests, qw7_raised, focus_report>>
    /\ Frame("qw7")

NextQw7 ==
    \/ test_element_skipped
    \/ test_element
    \/ test_element_raises
    \/ focus_save_report
    \/ qw7_exit
    \/ qw7_except

SpecQw7 == InitQw7 /\ [][NextQw7]_vars

\* C16: an operator abort during the focus test (Ctrl+C, or the mouse in
\* the screen corner) ends the run with exit code 2, any other error with
\* exit code 3, and a test that runs to completion saves the report and
\* exits 0 if the summary is WCAG compliant and 1 otherwise.
Qw7Exited == qw7_pc = "exited"
OperatorAbort == qw7_raised \in {"KeyboardInterrupt", "FailSafeException"}

C16_ExitCodes ==
    qw7_script \in Qw7Scripts =>
    /\ (Qw7Exited /\ OperatorAbort) => qw7_exit_code = 2
    /\ (Qw7Exited /\ qw7_raised = "OSError") => qw7_exit_code = 3
    /\ (Qw7Exited /\ qw7_raised = None)
          => /\ focus_report.state = "saved"
             /\ qw7_exit_code = (IF focus_report.summary.wcag_compliant THEN 0 ELSE 1)

(***************************************************************************)
(* run_quick_wins.py: QuickWinsCoordinator.run_all walks the Quick Wins in *)
(* order and calls the ones that are in quick_wins_to_run.                 *)
(***************************************************************************)
QuickWins == 1..7

\* the numbers a caller can list: the Quick Wins and two that are none
ListedNumbers == 0..8

\* quick_wins_to_run as passed to run_all: None or a list of numbers
NotGiven == [given |-> FALSE, numbers |-> {}]
Given(numbers) == [given |-> TRUE, numbers |-> numbers]

\* "Default: non-interactive + Phase 1"
DefaultQuickWins == {1, 2, 6, 7}

InitCoordinator ==
    /\ coordinator_pc = "run_all"
    /\ quick_wins_to_run \in {NotGiven} \cup {Given(s) : s \in SUBSET ListedNumbers}
    /\ to_run = {}
    /\ next_quick_win = 1
    /\ invoked = <<>>
    /\ combined_report = [state |-> "none"]
    /\ skip_interactive \in BOOLEAN
    /\ quick_wins = [n \in QuickWins |-> "none"]
    /\ injected = {}
    /\ Idle({"coordinator"})

\* run_all: "if quick_wins_to_run is None"
run_all ==
    /\ coordinator_pc = "run_all"
    /\ to_run' = IF ~quick_wins_to_run.given
                 THEN DefaultQuickWins ELSE quick_wins_to_run.numbers
    /\ coordinator_pc' = "select"
    /\ UNCHANGED <<quick_wins_to_run, next_quick_win, invoked, combined_report,
                   skip_interactive, quick_wins, injected>>
    /\ Frame("coordinator")

\* how run_quick_win_n can end.  "skipped": returns None without an entry
\* (no exe_path, no log, no automation config, skip_interactive, Ctrl+C at
\* the prompt of Quick Win 7); "completed": the entry of the test;
\* "error": the entry written by its "except Exception"; "integrated": the
\* note of Quick Win 5; "raised": the exception of terminate_kill, for
\* which run_quick_win_1 has no handler
QuickWinOutcomes(n, skip) ==
    CASE n = 1 -> {"skipped", "completed", "raised"}
      [] n = 2 -> {"skipped", "completed"}
      [] n = 3 -> {"skipped", "completed", "error"}
      [] n = 4 -> IF skip THEN {"skipped"} ELSE {"completed", "error"}
      [] n = 5 -> {"integrated"}
      [] n = 6 -> {"completed", "error"}
      [] n = 7 -> IF skip THEN {"skipped"} ELSE {"skipped", "completed", "error"}

\* Quick Wins 3, 4 and 7 press keys or click once they get to their test
InjectsInput(n, outcome) == n \in {3, 4, 7} /\ outcome \in {"completed", "error"}

\* the entry run_quick_win_n leaves in self.results['quick_wins']
Entry(outcome) == IF outcome \in {"skipped", "raised"} THEN "none" ELSE outcome

\* run_all: "if n in quick_wins_to_run: self.run_quick_win_n()"
run_selected ==
    /\ coordinator_pc = "select"
    /\ next_quick_win \in QuickWins
    /\ IF next_quick_win \in to_run
       THEN \E outcome \in QuickWinOutcomes(next_quick_win, skip_interactive) :
              /\ invoked' = Append(invoked, next_quick_win)
              /\ quick_wins' = [quick_wins EXCEPT ![next_quick_win] = Entry(outcome)]
              /\ injected' = IF InjectsInput(next_quick_win, outcome)
                             THEN injected \cup {next_quick_win} ELSE injected
              /\ coordinator_pc' =
                    IF outcome = "raised" THEN "raised"
                    ELSE IF next_quick_win + 1 \in QuickWins THEN "select" ELSE "save"
       ELSE /\ coordinator_pc' =
                    IF next_quick_win + 1 \in QuickWins THEN "select" ELSE "save"
            /\ UNCHANGED <<invoked, quick_wins, injected>>
    /\ next_quick_win' = next_quick_win + 1
    /\ UNCHANGED <<quick_wins_to_run, to_run, combined_report, skip_interactive>>
    /\ Frame("coordinator")

save_combined_report ==
    /\ coordinator_pc = "save"
    /\ combined_report' = [state |-> "saved", quick_wins |-> quick_wins]
    /\ coordinator_pc' = "done"
    /\ UNCHANGED <<quick_wins_to_run, to_run, next_quick_win, invoked,
                   skip_interactive, quick_wins, injected>>
    /\ Frame("coordinator")

NextCoordinator == run_all \/ run_selected \/ save_combined_report

SpecCoordinator == InitCoordinator /\ [][NextCoordinator]_vars

\* C17: run_all runs exactly the Quick Wins whose numbers are in
\* quick_wins_to_run, each once and in order, and when quick_wins_to_run
\* is None it runs all of Quick Wins 1 through 7.
Invoked == {invoked[k] : k \in 1..Len(invoked)}
RunAllDone == coordinator_pc \in {"save", "done"}

C17_RunsListed ==
    /\ \A k \in 1..(Len(invoked) - 1) : invoked[k] < invoked[k + 1]
    /\ RunAllDone
          => Invoked = (IF quick_wins_to_run.given
                        THEN quick_wins_to_run.numbers \cap QuickWins
                        ELSE QuickWins)

\* C26: in the focus indicator summary with_indicators is the number of
\* recorded results whose has_focus_indicator is true and
\* without_indicators the number of those whose has_focus_indicator is
\* false.
ResultsWhere(Keep(_)) == {k \in 1..Len(test_results) : Keep(test_results[k])}
HasIndicator(test) == test.has_focus_indicator
HasNoIndicator(test) == ~test.has_focus_indicator
IsCompliant(test) == test.wcag_compliant
CurrentFocusSummary == FocusSummary(test_results, passed_tests, failed_tests)

C26_IndicatorCounts ==
    /\ CurrentFocusSummary.with_indicators = Cardinality(ResultsWhere(HasIndicator))
    /\ CurrentFocusSummary.without_indicators = Cardinality(ResultsWhere(HasNoIndicator))

\* C27: the summary reports wcag_compliant true, and the command line
\* exits 0, only if all requested elements were tested and every one of
\* them has a compliant focus indicator.
AllElementsCompliant ==
    /\ Len(test_results) = ElementCount
    /\ ResultsWhere(IsCompliant) = 1..ElementCount

C27_CompliantMeansAllTested ==
    /\ focus_report.state = "saved"
          => (focus_report.summary.wcag_compliant => AllElementsCompliant)
    /\ (Qw7Exited /\ qw7_exit_code = 0) => AllElementsCompliant

(***************************************************************************)
(* keyboard_navigation_test.py: run_full_test_suite calls the six test     *)
(* methods one after the other; each catches Exception (which includes     *)
(* the fail-safe of pyautogui), counts and appends its result.  Ctrl+C     *)
(* raises KeyboardInterrupt, which no test catches: the suite ends there.  *)
(***************************************************************************)
\* the test methods in the order run_full_test_suite calls them, by the
\* 'name' each gives its result
SuiteOrder_swapped ==
    <<"Tab Navigation", "Enter Key Activation", "Arrow Key Navigation",
      "Space Key Activation", "Shift+Tab Navigation", "Escape Key">>

SuiteOrder ==
    <<"Tab Navigation", "Enter Key Activation", "Space Key Activation",
      "Arrow Key Navigation", "Shift+Tab Navigation", "Escape Key">>

\* the body of a test method: status 'passed' at the end of the try,
\* 'failed' in the except clause, one counter incremented, result appended
RunTest(name, status) ==
    /\ kb_results' = Append(kb_results, [name |-> name, status |-> status])
    /\ kb_passed' = Tally(kb_passed, status = "passed")
    /\ kb_failed' = Tally(kb_failed, status = "failed")
    /\ kb_next' = kb_next + 1
    /\ kb_pc' = IF kb_next = Len(SuiteOrder) THEN "save" ELSE "suite"
    /\ UNCHANGED <<kb_report, kb_exit_code>>
    /\ Frame("keyboard")

test_tab_navigation ==
    /\ kb_pc = "suite"
    /\ SuiteOrder[kb_next] = "Tab Navigation"
    /\ \E status \in {"passed", "failed"} : RunTest("Tab Navigation", status)

test_enter_activation ==
    /\ kb_pc = "suite"
    /\ SuiteOrder[kb_next] = "Enter Key Activation"
    /\ \E status \in {"passed", "failed"} : RunTest("Enter Key Activation", status)

test_space_key ==
    /\ kb_pc = "suite"
    /\ SuiteOrder[kb_next] = "Space Key Activation"
    /\ \E status \in {"passed", "failed"} : RunTest("Space Key Activation", status)

test_arrow_navigation ==
    /\ kb_pc = "suite"
    /\ SuiteOrder[kb_next] = "Arrow Key Navigation"
    /\ \E status \in {"passed", "failed"} : RunTest("Arrow Key Navigation", status)

test_shift_tab_navigation ==
    /\ kb_pc = "suite"
    /\ SuiteOrder[kb_next] = "Shift+Tab Navigation"
    /\ \E status \in {"passed", "failed"} : RunTest("Shift+Tab Navigation", status)

test_escape_key ==
    /\ kb_pc = "suite"
    /\ SuiteOrder[kb_next] = "Escape Key"
    /\ \E status \in {"passed", "failed"} : RunTest("Escape Key", status)


\* main without pyautogui: sys.exit(1) before a tester is made
kb_main_no_pyautogui ==
    /\ kb_pc = "main"
    /\ kb_pc' = "exited"
    /\ kb_exit_code' = 1
    /\ UNCHANGED <<kb_next, kb_results, kb_passed, kb_failed, kb_report>>
    /\ Frame("keyboard")

\* main with pyautogui: the tester is made and run_full_test_suite starts
kb_main_start ==
    /\ kb_pc = "main"
    /\ kb_pc' = "suite"
    /\ UNCHANGED <<kb_next, kb_results, kb_passed, kb_failed, kb_report, kb_exit_code>>
    /\ Frame("keyboard")

\* Ctrl+C while a test presses its keys: KeyboardInterrupt leaves the test
\* method before it counts or appends, and main ends with a traceback
suite_interrupted ==
    /\ kb_pc = "suite"
    /\ kb_pc' = "exited"
    /\ kb_exit_code' = 1
    /\ UNCHANGED <<kb_next, kb_results, kb_passed, kb_failed, kb_report>>
    /\ Frame("keyboard")

get_accessibility_report(results, passed, failed) ==
    [compliance_score |-> IF Len(results) > 0
                          THEN (passed * 1000) \div Len(results) ELSE 0,
     compliant |-> passed = Len(results),
     total_tests |-> Len(results),
     passed |-> passed,
     failed |-> failed,
     test_results |-> results]

\* main: save_report after the suite
kb_save_report ==
    /\ kb_pc = "save"
    /\ kb_report' = [state |-> "saved",
                     report |-> get_accessibility_report(kb_results, kb_passed, kb_failed)]
    /\ kb_pc' = "exit"
    /\ UNCHANGED <<kb_next, kb_results, kb_passed, kb_failed, kb_exit_code>>
    /\ Frame("keyboard")

\* only the passed counter looked at
kb_exit_status_passed(passed, failed) == IF passed > 0 THEN 0 ELSE 1

\* sys.exit(0 if tester.failed_tests == 0 else 1)
kb_exit_status(passed, failed) == IF failed = 0 THEN 0 ELSE 1

kb_main_exit ==
    /\ kb_pc = "exit"
    /\ kb_exit_code' = kb_exit_status(kb_passed, kb_failed)
    /\ kb_pc' = "exited"
    /\ UNCHANGED <<kb_next, kb_results, kb_passed, kb_failed, kb_report>>
    /\ Frame("keyboard")

KeyboardStart ==
    /\ kb_pc = "main"
    /\ kb_next = 1
    /\ kb_results = <<>>
    /\ kb_passed = 0
    /\ kb_failed = 0
    /\ kb_report = [state |-> "none"]
    /\ kb_exit_code = -1

InitKeyboard == KeyboardStart /\ Idle({"keyboard"})

NextKeyboard ==
    \/ kb_main_no_pyautogui
    \/ kb_main_start
    \/ test_tab_navigation
    \/ test_enter_activation
    \/ test_space_key
    \/ test_arrow_navigation
    \/ test_shift_tab_navigation
    \/ test_escape_key
    \/ suite_interrupted
    \/ kb_save_report
    \/ kb_main_exit

SpecKeyboard == InitKeyboard /\ [][NextKeyboard]_vars

\* C22: the six tests run in the order Tab, Enter, Space, Arrow, Shift+Tab,
\* Escape; each appends exactly one result whose status is 'passed' or
\* 'failed'; a failed test does not keep the later ones from running; the
\* report's compliant flag is true iff every recorded test passed, and the
\* command line exits 0 iff failed_tests = 0.
TestsRun == kb_next - 1
SuiteCompleted == kb_report.state = "saved"

InitTests == Qw7Start /\ KeyboardStart /\ Idle({"qw7", "keyboard"})

NextTests ==
    \/ test_element_skipped
    \/ test_element
    \/ test_element_raises
    \/ focus_save_report
    \/ qw7_exit
    \/ qw7_except
    \/ kb_main_no_pyautogui
    \/ kb_main_start
    \/ test_tab_navigation
    \/ test_enter_activation
    \/ test_space_key
    \/ test_arrow_navigation
    \/ test_shift_tab_navigation
    \/ test_escape_key
    \/ suite_interrupted
    \/ kb_save_report
    \/ kb_main_exit

SpecTests == InitTests /\ [][NextTests]_vars

KbResultsWhere(status) ==
    Cardinality({k \in 1..Len(kb_results) : kb_results[k].status = status})

CountersMatch ==
    /\ passed_tests + failed_tests = Len(test_results)
    /\ passed_tests = Cardinality(ResultsWhere(IsCompliant))
    /\ failed_tests = Len(test_results) - Cardinality(ResultsWhere(IsCompliant))
    /\ kb_passed + kb_failed = Len(kb_results)
    /\ kb_passed = KbResultsWhere("passed")
    /\ kb_failed = KbResultsWhere("failed")

\* a step that appends a result adds one to exactly one counter; a step
\* that appends none leaves the counters alone
CountedStep ==
    /\ IF Len(test_results') = Len(test_results) + 1
       THEN (passed_tests' + failed_tests') = (passed_tests + failed_tests) + 1
       ELSE UNCHANGED <<test_results, passed_tests, failed_tests>>
    /\ IF Len(kb_results') = Len(kb_results) + 1
       THEN (kb_passed' + kb_failed') = (kb_passed + kb_failed) + 1
       ELSE UNCHANGED <<kb_results, kb_passed, kb_failed>>

\* C25: in the focus detector and in the keyboard test, passed_tests +
\* failed_tests = len(test_results) after any sequence of test operations:
\* each appended result adds one to exactly one counter, the one its
\* wcag_compliant flag (focus detector) or status (keyboard test) names,
\* and a skipped iteration changes neither the counters nor the results.
C25_CountersMatch == []CountersMatch /\ [][CountedStep]_vars

C25_Witness ==
    /\ Len(test_results) = 2
    /\ element_i = 3
    /\ passed_tests = 1
    /\ failed_tests = 1
    /\ Len(kb_results) = 6
    /\ kb_passed = 4
    /\ kb_failed = 2

\* C23: in run_all a failure inside a selected Quick Win does not keep the
\* later selected Quick Wins from running and the combined report is
\* always saved after the last of them; the selected Quick Wins run in
\* ascending order whatever the order of the list; with skip_interactive
\* set, Quick Wins 4 and 7 inject no input and add no entry to the results.
CoordinatorEnded == coordinator_pc \in {"done", "raised"}

C23_FailuresContained ==
    /\ \A k \in 1..(Len(invoked) - 1) : invoked[k] < invoked[k + 1]
    /\ CoordinatorEnded
          => /\ Invoked = to_run \cap QuickWins
             /\ combined_report = [state |-> "saved", quick_wins |-> quick_wins]
    /\ skip_interactive
          => \A n \in {4, 7} : quick_wins[n] = "none" /\ n \notin injected

(***************************************************************************)
(* test_career_explorer.py: main launches Career Explorer, then captures   *)
(* screenshots, runs the contrast analysis and the focus test inside a     *)
(* try whose finally clause terminates the application.                    *)
(***************************************************************************)
\* capture_screenshots(count=5, ...)
CaptureCount == 5

InitExplorer ==
    /\ ce_pc = "launch"
    /\ ce_process = None
    /\ ce_app = "not_started"
    /\ ce_captured = 0
    /\ ce_done = <<>>
    /\ qw6_summary = None
    /\ qw7_summary = None
    /\ ce_raised = None
    /\ ce_return = -1
    /\ Idle({"explorer"})

\* the application closes by itself (or is closed by the operator)
CareerExplorerExits ==
    /\ ce_app = "running"
    /\ ce_app' = "exited"
    /\ UNCHANGED <<ce_pc, ce_process, ce_captured, ce_done, qw6_summary,
                   qw7_summary, ce_raised, ce_return>>
    /\ Frame("explorer")

\* launch_career_explorer: None when the executable is missing or Popen
\* raises, else the process after five seconds of loading; Ctrl+C during
\* the load is no Exception and leaves main with the application running
launch_career_explorer ==
    /\ ce_pc = "launch"
    /\ \E outcome \in {"not_found", "popen_error", "launched", "interrupted"} :
         /\ ce_app' = IF outcome \in {"launched", "interrupted"}
                      THEN "running" ELSE ce_app
         /\ ce_process' = IF outcome = "launched" THEN "process" ELSE None
         /\ ce_raised' = IF outcome = "interrupted" THEN "KeyboardInterrupt" ELSE None
         /\ ce_pc' = IF outcome = "interrupted" THEN "returned" ELSE "launched"
         /\ ce_return' = IF outcome = "interrupted" THEN 1 ELSE ce_return
    /\ UNCHANGED <<ce_captured, ce_done, qw6_summary, qw7_summary>>
    /\ Frame("explorer")

\* main: "if not process: ... return 1", else into the try
main_after_launch ==
    /\ ce_pc = "launched"
    /\ IF ce_process = None
       THEN ce_pc' = "returned" /\ ce_return' = 1
       ELSE ce_pc' = "capture" /\ UNCHANGED ce_return
    /\ UNCHANGED <<ce_process, ce_app, ce_captured, ce_done, qw6_summary,
                   qw7_summary, ce_raised>>
    /\ Frame("explorer")

\* what can come out of a step inside the try of main
TryRaises == {"OSError", "KeyboardInterrupt"}

\* one pass of the loop of capture_screenshots: pyautogui.screenshot() and
\* save; an error of either is not caught before the finally of main
capture_screenshot ==
    /\ ce_pc = "capture"
    /\ ce_captured < CaptureCount
    /\ \E outcome \in {None} \cup TryRaises :
         /\ ce_raised' = outcome
         /\ ce_captured' = IF outcome = None THEN ce_captured + 1 ELSE ce_captured
         /\ ce_pc' = IF outcome # None THEN "finally"
                     ELSE IF ce_captured + 1 = CaptureCount THEN "analysis" ELSE "capture"
         /\ ce_done' = IF ce_captured = 0 THEN Append(ce_done, "capture") ELSE ce_done
    /\ UNCHANGED <<ce_process, ce_app, qw6_summary, qw7_summary, ce_return>>
    /\ Frame("explorer")

\* a summary as main looks at it
Summaries == {"compliant", "not_compliant"}

\* run_qw6_analysis: the summary of the analyzer, None when it found no
\* screenshot; it has no handler of its own
run_qw6_analysis ==
    /\ ce_pc = "analysis"
    /\ \E outcome \in {None} \cup Summaries \cup TryRaises :
         /\ ce_raised' = IF outcome \in TryRaises THEN outcome ELSE None
         /\ qw6_summary' = IF outcome \in TryRaises THEN qw6_summary ELSE outcome
         /\ ce_pc' = IF outcome \in TryRaises THEN "finally" ELSE "qw7"
    /\ ce_done' = Append(ce_done, "analysis")
    /\ UNCHANGED <<ce_process, ce_app, ce_captured, qw7_summary, ce_return>>
    /\ Frame("explorer")

\* run_qw7_focus_test: Ctrl+C at the prompt skips the test, an Exception
\* of the test is caught and printed; Ctrl+C during the test is neither.
\* After it main prints the summaries and executes "return 0"
run_qw7_focus_test ==
    /\ ce_pc = "qw7"
    /\ \E outcome \in {"skipped", "failed", "KeyboardInterrupt"} \cup Summaries :
         /\ ce_raised' = IF outcome = "KeyboardInterrupt" THEN outcome ELSE None
         /\ qw7_summary' = IF outcome \in Summaries THEN outcome ELSE qw7_summary
         /\ ce_done' = Append(ce_done, IF outcome = "skipped" THEN "qw7_skipped" ELSE "qw7")
    /\ ce_pc' = "finally"
    /\ UNCHANGED <<ce_process, ce_app, ce_captured, qw6_summary, ce_return>>
    /\ Frame("explorer")

\* a finally clause that is passed over when an exception is on its way
finally_terminate_unless_raised ==
    /\ ce_pc = "finally"
    /\ ce_done' = IF ce_raised = None THEN Append(ce_done, "terminate") ELSE ce_done
    /\ ce_app' = IF ce_raised = None THEN "exited" ELSE ce_app
    /\ ce_pc' = "returned"
    /\ ce_return' = IF ce_raised = None THEN 0 ELSE 1
    /\ UNCHANGED <<ce_process, ce_captured, qw6_summary, qw7_summary, ce_raised>>
    /\ Frame("explorer")

\* main, finally: process.terminate() and process.wait(timeout=5) inside a
\* bare except; then the return value of the try, or the traceback of the
\* exception that left it
finally_terminate ==
    /\ ce_pc = "finally"
    /\ ce_done' = Append(ce_done, "terminate")
    /\ \E stopped \in BOOLEAN :
         ce_app' = IF ce_app = "running" /\ stopped THEN "exited" ELSE ce_app
    /\ ce_pc' = "returned"
    /\ ce_return' = IF ce_raised = None THEN 0 ELSE 1
    /\ UNCHANGED <<ce_process, ce_captured, qw6_summary, qw7_summary, ce_raised>>
    /\ Frame("explorer")

NextExplorer ==
    \/ CareerExplorerExits
    \/ launch_career_explorer
    \/ main_after_launch
    \/ capture_screenshot
    \/ run_qw6_analysis
    \/ run_qw7_focus_test
    \/ finally_terminate

SpecExplorer == InitExplorer /\ [][NextExplorer]_vars

\* the script's own steps: every call main makes returns or raises
ExplorerSteps ==
    \/ launch_career_explorer
    \/ main_after_launch
    \/ capture_screenshot
    \/ run_qw6_analysis
    \/ run_qw7_focus_test
    \/ finally_terminate

SpecExplorerLive ==
    InitExplorer /\ [][NextExplorer]_vars /\ WF_vars(ExplorerSteps)

Did(step) == \E k \in 1..Len(ce_done) : ce_done[k] = step
Launched == ce_process # None
MainReturned == ce_pc = "returned"

\* C21: once Career Explorer has been launched, the cleanup that
\* terminates the process is eventually executed on every path before main
\* returns: normal completion, focus test skipped by the user, or an
\* exception raised during screenshot capture or analysis; if the launch
\* fails, no capture, analysis or termination is attempted and main
\* returns 1.
C21_CleanupAlways ==
    /\ Launched ~> (Did("terminate") /\ MainReturned)
    /\ []((Launched /\ MainReturned) => Did("terminate"))
    /\ [](Did("terminate") => ce_done[Len(ce_done)] = "terminate")
    /\ []((MainReturned /\ ~Launched /\ ce_raised = None)
            => (ce_done = <<>> /\ ce_captured = 0 /\ ce_return = 1))

C21_Witness ==
    /\ MainReturned
    /\ Launched
    /\ ce_raised = "OSError"
    /\ ce_captured = 2
    /\ ce_done = <<"capture", "terminate">>
    /\ ce_return = 1

(***************************************************************************)
(* colorblind_simulator.py: process_all_screenshots calls                  *)
(* process_screenshot for each screenshot, which simulates and saves one   *)
(* image per entry of TRANSFORMATIONS and appends one record.              *)
(***************************************************************************)
MaxProcessed == 2
MaxSaveFailures == 1

\* the keys of TRANSFORMATIONS in the order the dict lists them
TransformationOrder ==
    <<"protanopia", "deuteranopia", "tritanopia", "protanomaly",
      "deuteranomaly", "tritanomaly", "achromatopsia", "achromatomaly">>

\* what a screenshot file holds: an image, or something Image.open fails on
ImageFiles == {"image", "unreadable"}

InitSimulator ==
    /\ cb_pc = "start"
    /\ cb_screenshots \in BSeq(ImageFiles, MaxProcessed)
    /\ cb_next = 1
    /\ cvd_i = 1
    /\ simulations_for_image = <<>>
    /\ simulations = <<>>
    /\ generated = 0
    /\ save_failures = 0
    /\ Idle({"simulator"})

\* process_all_screenshots: nothing to do without screenshots
process_all_screenshots ==
    /\ cb_pc = "start"
    /\ cb_pc' = IF cb_screenshots = <<>> THEN "done" ELSE "screenshot"
    /\ UNCHANGED <<cb_screenshots, cb_next, cvd_i, simulations_for_image,
                   simulations, generated, save_failures>>
    /\ Frame("simulator")

\* process_screenshot: a record with an empty list of simulations
process_screenshot ==
    /\ cb_pc = "screenshot"
    /\ cb_next <= Len(cb_screenshots)
    /\ simulations_for_image' = <<>>
    /\ cvd_i' = 1
    /\ cb_pc' = "variant"
    /\ UNCHANGED <<cb_screenshots, cb_next, simulations, generated, save_failures>>
    /\ Frame("simulator")

\* simulate_colorblindness returns None for a file it cannot open or
\* transform; simulated_img.save can raise, which the loop catches
SimulationOutcomes(file) ==
    IF file = "unreadable" THEN {"None"}
    ELSE {"saved"} \cup (IF save_failures < MaxSaveFailures THEN {"save_raises"} ELSE {})

\* one pass of the loop over TRANSFORMATIONS
simulate_variant ==
    /\ cb_pc = "variant"
    /\ cvd_i <= Len(TransformationOrder)
    /\ \E outcome \in SimulationOutcomes(cb_screenshots[cb_next]) :
         /\ simulations_for_image' =
               IF outcome = "saved"
               THEN Append(simulations_for_image, TransformationOrder[cvd_i])
               ELSE simulations_for_image
         /\ generated' = IF outcome = "saved" THEN generated + 1 ELSE generated
         /\ save_failures' =
               IF outcome = "save_raises" THEN save_failures + 1 ELSE save_failures
    /\ cvd_i' = cvd_i + 1
    /\ UNCHANGED <<cb_pc, cb_screenshots, cb_next, simulations>>
    /\ Frame("simulator")

\* process_screenshot, after the loop: the record is appended
process_screenshot_append ==
    /\ cb_pc = "variant"
    /\ cvd_i > Len(TransformationOrder)
    /\ simulations' = Append(simulations,
                             [original_image |-> cb_next,
                              simulations |-> simulations_for_image])
    /\ cb_next' = cb_next + 1
    /\ cb_pc' = IF cb_next = Len(cb_screenshots) THEN "done" ELSE "screenshot"
    /\ UNCHANGED <<cb_screenshots, cvd_i, simulations_for_image, generated,
                   save_failures>>
    /\ Frame("simulator")

\* ColorBlindSimulator.get_summary
simulator_get_summary(sims) ==
    [screenshots_processed |-> Len(sims),
     total_simulations |-> Len(sims) * Cardinality(CVDTypes)]

NextSimulator ==
    \/ process_all_screenshots
    \/ process_screenshot
    \/ simulate_variant
    \/ process_screenshot_append

SpecSimulator == InitSimulator /\ [][NextSimulator]_vars

RECURSIVE RecordsIn(_)
RecordsIn(sims) ==
    IF sims = <<>> THEN 0
    ELSE Len(sims[1].simulations) + RecordsIn(Tail(sims))

\* C29: after any sequence of process_screenshot calls, also ones in which
\* the simulation of some variant failed and was skipped, the summary's
\* total_simulations is the number of simulation records stored in
\* self.simulations, which is the number of simulated images generated,
\* and each processed screenshot carries at most 8 records with pairwise
\* distinct cvd_type.
C29_TotalSimulations ==
    /\ simulator_get_summary(simulations).total_simulations = RecordsIn(simulations)
    /\ cb_pc \in {"screenshot", "done"} => RecordsIn(simulations) = generated
    /\ \A k \in 1..Len(simulations) :
         LET recs == simulations[k].simulations IN
           /\ Len(recs) <= 8
           /\ \A a, b \in 1..Len(recs) : recs[a] = recs[b] => a = b

(***************************************************************************)
(* input_automation.py: execute_scenario walks the steps of a scenario and *)
(* dispatches on step['action'] inside try / except Exception.             *)
(***************************************************************************)
MaxSteps == 3

\* the actions execute_scenario knows, a click step without x or y, and an
\* action it does not know
RecordingActions == {"click", "type", "press", "hotkey"}
SilentActions == {"wait", "screenshot", "move_to"}
SkippedActions == {"click_without_xy", "unknown"}
StepActions == RecordingActions \cup SilentActions \cup SkippedActions

\* a record of an earlier scenario of the same run
EarlierRecord == [step |-> 0, action |-> "press", error |-> FALSE]

InitAutomation ==
    /\ ia_pc = "step"
    /\ steps \in BSeq(StepActions, MaxSteps)
    /\ step_i = 1
    /\ executed = <<>>
    /\ ia_results \in {<<>>, <<EarlierRecord>>}
    /\ ia_before = Len(ia_results)
    /\ ia_report = [state |-> "none"]
    /\ Idle({"automation"})

\* the loop going on after an error only if no step is left
after_step_stop_on_error(i, raised) ==
    IF i = Len(steps) \/ raised THEN "completed" ELSE "step"

\* "for i, step in enumerate(steps, 1)": on to the next step, if any
after_step(i, raised) ==
    IF i = Len(steps) THEN "completed" ELSE "step"

\* how the call of a step's action can end: pyautogui, time.sleep and the
\* screenshot can raise an Exception (the fail-safe included); the two
\* branches that only print cannot
StepOutcomes(action) ==
    IF action \in SkippedActions THEN {"returned"}
    ELSE {"returned", "raised"}

\* the record a step appends, if any: click, type_text, press_key and
\* hotkey append theirs after the pyautogui call; the except clause
\* appends the error record
StepRecords(i, action, outcome) ==
    IF outcome = "raised"
    THEN <<[step |-> i, action |-> action, error |-> TRUE]>>
    ELSE IF action \in RecordingActions
    THEN <<[step |-> i, action |-> action, error |-> FALSE]>>
    ELSE <<>>

\* one pass of the loop of execute_scenario
execute_step ==
    /\ ia_pc = "step"
    /\ step_i <= Len(steps)
    /\ \E outcome \in StepOutcomes(steps[step_i]) :
         /\ ia_results' = ia_results \o StepRecords(step_i, steps[step_i], outcome)
         /\ ia_pc' = after_step(step_i, outcome = "raised")
    /\ executed' = Append(executed, step_i)
    /\ step_i' = step_i + 1
    /\ UNCHANGED <<steps, ia_before, ia_report>>
    /\ Frame("automation")

\* a scenario without steps
execute_no_steps ==
    /\ ia_pc = "step"
    /\ steps = <<>>
    /\ ia_pc' = "completed"
    /\ UNCHANGED <<steps, step_i, executed, ia_results, ia_before, ia_report>>
    /\ Frame("automation")

\* Ctrl+C during a step: KeyboardInterrupt is no Exception, it leaves
\* execute_scenario and run_from_config
execute_interrupted ==
    /\ ia_pc = "step"
    /\ step_i <= Len(steps)
    /\ steps[step_i] \notin SkippedActions
    /\ executed' = Append(executed, step_i)
    /\ ia_pc' = "interrupted"
    /\ UNCHANGED <<steps, step_i, ia_results, ia_before, ia_report>>
    /\ Frame("automation")

\* InputAutomation.save_results
save_results ==
    /\ ia_pc = "completed"
    /\ ia_report' = [state |-> "saved",
                     total_actions |-> Len(ia_results),
                     actions |-> ia_results]
    /\ ia_pc' = "saved"
    /\ UNCHANGED <<steps, step_i, executed, ia_results, ia_before>>
    /\ Frame("automation")

NextAutomation ==
    \/ execute_step
    \/ execute_no_steps
    \/ execute_interrupted
    \/ save_results

SpecAutomation == InitAutomation /\ [][NextAutomation]_vars

ScenarioCompleted == ia_pc \in {"completed", "saved"}
Added == SubSeq(ia_results, ia_before + 1, Len(ia_results))
AddedBy(i) == {k \in 1..Len(Added) : Added[k].step = i}

====
